---- MODULE Spec2Model ----
(***************************************************************************)
(* A model of the hrm interpreter: Program::validate and Program::run      *)
(* (src/src/code/program.rs), the instruction objects of                   *)
(* src/src/code/commands/*.rs and Value arithmetic (src/src/game/value.rs).*)
(*                                                                         *)
(* A Program is a list of commands closed by the End marker plus a label   *)
(* table; a Problem is a list of IO cases, a memory template and a set of  *)
(* enabled keywords.  Indices are 0-based as in the source; sequences are  *)
(* 1-based, so memory cell i of the source is memory[i + 1] here.          *)
(*                                                                         *)
(* Two interpreters exist in program.rs.  Program::run hands every IO case *)
(* to run_io_new (program.rs:151), the execute/next loop over a list of    *)
(* six instruction objects that run_io_new builds itself: SpecNew is run.  *)
(* run_io, the match over the Command enum that interprets the commands of *)
(* the Program, is not called by run (program.rs:150 is a comment): Spec   *)
(* is calls of run_io by itself, each on one IO case of the Problem.       *)
(* SpecOps is single calls of the helpers, the instruction objects, the    *)
(* compiler and ProblemBuilder on bounded inputs.                          *)
(***************************************************************************)
EXTENDS Integers, Sequences, FiniteSets, TLC

\* ------------------------------------------------------------------ bounds
MaxLen == 2
MaxSteps == 7
MaxRuns == 2
MaxCell == 2
MaxTape == 2

\* ------------------------------------------------------- program constants
I32Max == 2147483647
UsizeMax == 2147483647

I32Min == (-I32Max) - 1

\* ------------------------------------------------------------------ values
\* Option<Value>: None, Some(VInt(n)), Some(VChar(c)); c is the code point.
None == [t |-> "None", v |-> 0]
VInt(n) == [t |-> "Int", v |-> n]
VChar(c) == [t |-> "Char", v |-> c]
PanicValue == [t |-> "Panic", v |-> 0]

\* i32 addition: the mathematical sum when it fits; otherwise the build
\* decides: with overflow checks the addition panics, without them it wraps
\* modulo 2^32 (written so that no intermediate value leaves the i32 range).
AddI32(a, b, checks) ==
  IF b > 0 /\ a > I32Max - b
    THEN IF checks THEN PanicValue ELSE VInt((a + I32Min) + (b + I32Min))
  ELSE IF b < 0 /\ a < I32Min - b
    THEN IF checks THEN PanicValue ELSE VInt((a - I32Min) + (b - I32Min))
  ELSE VInt(a + b)

SubI32(a, b, checks) ==
  IF b < 0 /\ a > I32Max + b
    THEN IF checks THEN PanicValue ELSE VInt((a + I32Min) - (b - I32Min))
  ELSE IF b > 0 /\ a < I32Min + b
    THEN IF checks THEN PanicValue ELSE VInt((a - I32Min) - (b + I32Min))
  ELSE VInt(a - b)

\* Value::add: Some(Int) for Int + Int, None otherwise.
ValueAdd(lhs, rhs, checks) ==
  IF lhs.t = "Int" /\ rhs.t = "Int" THEN AddI32(lhs.v, rhs.v, checks)
  ELSE None

\* Value::sub without the arm for two Chars.
ValueSubIntOnly(lhs, rhs, checks) ==
  IF lhs.t = "Int" /\ rhs.t = "Int" THEN SubI32(lhs.v, rhs.v, checks)
  ELSE None

\* Value::sub: Int - Int, Char - Char (code point distance), None otherwise.
ValueSub(lhs, rhs, checks) ==
  IF lhs.t = "Int" /\ rhs.t = "Int" THEN SubI32(lhs.v, rhs.v, checks)
  ELSE IF lhs.t = "Char" /\ rhs.t = "Char" THEN VInt(lhs.v - rhs.v)
  ELSE None

\* impl PartialEq<i32> for Value / impl PartialOrd<i32> for Value
ValueEqI32(val, n) == val.t = "Int" /\ val.v = n
ValueLtI32(val, n) == val.t = "Int" /\ val.v < n

\* ---------------------------------------------------------------- commands
ALL_COMMANDS ==
  {"INBOX", "OUTBOX", "COPYFROM", "COPYTO", "ADD", "SUB", "BUMPUP", "BUMPDN",
   "JUMP", "JUMPZ", "JUMPN"}

MemOps == {"COPYFROM", "COPYTO", "ADD", "SUB", "BUMPUP", "BUMPDN"}
JumpOps == {"JUMP", "JUMPZ", "JUMPN"}

\* enum Command; mode is the CommandValue variant ("Value" = literal index,
\* "Index" = indirect index).
Cmd(op, mode, idx, label) == [op |-> op, mode |-> mode, idx |-> idx, label |-> label]
Inbox == Cmd("INBOX", "-", 0, "")
Outbox == Cmd("OUTBOX", "-", 0, "")
End == Cmd("END", "-", 0, "")
NoCmd == Cmd("-", "-", 0, "")
Lit(op, i) == Cmd(op, "Value", i, "")
Ind(op, i) == Cmd(op, "Index", i, "")
Jmp(op, l) == Cmd(op, "-", 0, l)

\* Command::get_type: the keyword of a command.
get_type(command) == command.op

\* ------------------------------------------------------------------ errors
VOk == [kind |-> "Ok", s |-> "", n |-> 0]
VErr(kind, s, n) == [kind |-> kind, s |-> s, n |-> n]

RunErr(kind, cmd, expected, value) ==
  [kind |-> kind, cmd |-> cmd, expected |-> expected, value |-> value]
NoErr == RunErr("-", NoCmd, None, None)

\* ----------------------------------------------------------------- problem
\* Problem::is_command_available
is_command_available(problem, command) == command \in problem.available_commands

\* ---------------------------------------------------------------- validate
\* ValidateCommand without the comparison of the operand index against the
\* memory length.
ValidateCommandNoIndex(command, labels, problem) ==
  IF command = End THEN VOk
  ELSE IF ~is_command_available(problem, get_type(command))
    THEN VErr("CommandNotAvailable", get_type(command), 0)
  ELSE IF command.op \in JumpOps
    THEN IF command.label \notin DOMAIN labels
           THEN VErr("MissingLabel", command.label, 0)
           ELSE VOk
  ELSE VOk

\* ValidateCommand without the availability check.
ValidateCommandNoAvailability(command, labels, problem) ==
  IF command = End THEN VOk
  ELSE IF command.op \in MemOps
    THEN IF command.idx >= Len(problem.memory)
           THEN VErr("CommandIndex", "", command.idx)
           ELSE VOk
  ELSE IF command.op \in JumpOps
    THEN IF command.label \notin DOMAIN labels
           THEN VErr("MissingLabel", command.label, 0)
           ELSE VOk
  ELSE VOk

\* ValidateCommand that compares only an indirect operand with the memory
\* length.
ValidateCommandIndirectOnly(command, labels, problem) ==
  IF command = End THEN VOk
  ELSE IF ~is_command_available(problem, get_type(command))
    THEN VErr("CommandNotAvailable", get_type(command), 0)
  ELSE IF command.op \in MemOps
    THEN IF command.mode = "Index" /\ command.idx >= Len(problem.memory)
           THEN VErr("CommandIndex", "", command.idx)
           ELSE VOk
  ELSE IF command.op \in JumpOps
    THEN IF command.label \notin DOMAIN labels
           THEN VErr("MissingLabel", command.label, 0)
           ELSE VOk
  ELSE VOk

\* ValidateCommand that looks up the label of JUMP only.
ValidateCommandJumpOnly(command, labels, problem) ==
  IF command = End THEN VOk
  ELSE IF ~is_command_available(problem, get_type(command))
    THEN VErr("CommandNotAvailable", get_type(command), 0)
  ELSE IF command.op \in MemOps
    THEN IF command.idx >= Len(problem.memory)
           THEN VErr("CommandIndex", "", command.idx)
           ELSE VOk
  ELSE IF command.op = "JUMP"
    THEN IF command.label \notin DOMAIN labels
           THEN VErr("MissingLabel", command.label, 0)
           ELSE VOk
  ELSE VOk

\* The checks Program::validate makes on one command.
ValidateCommand(command, labels, problem) ==
  IF command = End THEN VOk
  ELSE IF ~is_command_available(problem, get_type(command))
    THEN VErr("CommandNotAvailable", get_type(command), 0)
  ELSE IF command.op \in MemOps
    THEN IF command.idx >= Len(problem.memory)
           THEN VErr("CommandIndex", "", command.idx)
           ELSE VOk
  ELSE IF command.op \in JumpOps
    THEN IF command.label \notin DOMAIN labels
           THEN VErr("MissingLabel", command.label, 0)
           ELSE VOk
  ELSE VOk

\* "for command in &self.commands": the first failing command decides.
RECURSIVE ValidateCommands(_, _, _, _)
ValidateCommands(commands, labels, problem, i) ==
  IF i > Len(commands) THEN VOk
  ELSE LET r == ValidateCommand(commands[i], labels, problem)
       IN IF r # VOk THEN r
          ELSE ValidateCommands(commands, labels, problem, i + 1)

\* "for (_, idx) in &self.labels": every label whose index is rejected.
ValidateLabels(program) ==
  { VErr("LabelIndex", "", program.labels[l]) :
      l \in { k \in DOMAIN program.labels :
                program.labels[k] > Len(program.commands) } }

\* validate that checks the label indices before the commands.
validateLabelsFirst(program, problem) ==
  IF ValidateLabels(program) # {} THEN ValidateLabels(program)
  ELSE { ValidateCommands(program.commands, program.labels, problem, 1) }

\* Program::validate: the set of results it can return.  The labels are
\* visited in the iteration order of a HashMap, so with several rejected
\* labels any of them can be the one reported.
validate(program, problem) ==
  LET c == ValidateCommands(program.commands, program.labels, problem, 1)
  IN IF c # VOk THEN {c}
     ELSE IF ValidateLabels(program) # {} THEN ValidateLabels(program)
     ELSE {VOk}

\* ------------------------------------------------------ run-time helpers
ROk(x) == [tag |-> "Ok", val |-> x, err |-> NoErr]
RErr(e) == [tag |-> "Err", val |-> None, err |-> e]
RPanic(why) == [tag |-> "Panic", val |-> None, err |-> RunErr(why, NoCmd, None, None)]

\* Program::get_label: unwrap of the table lookup.
get_label(program, label) ==
  IF label \in DOMAIN program.labels THEN ROk(program.labels[label])
  ELSE RPanic("unwrap on missing label")

\* get_acc(acc, command)
get_acc(acc, command) ==
  IF acc # None THEN ROk(acc)
  ELSE RErr(RunErr("EmptyAcc", command, None, None))

\* get_from_memory(memory, command)
get_from_memory(cell, command) ==
  IF cell # None THEN ROk(cell)
  ELSE RErr(RunErr("EmptyMemory", command, None, None))

\* memory[index]: a Vec index panics out of bounds.
MemoryAt(memory, index) ==
  IF index < Len(memory) THEN ROk(memory[index + 1])
  ELSE RPanic("memory index out of bounds")

\* IndexFromValue without the test for a negative index.
IndexFromValueNoNegative(index_value, memory) ==
  IF index_value.tag # "Ok" THEN index_value
  ELSE IF index_value.val.t = "Int"
    THEN IF index_value.val.v >= Len(memory)
           THEN RErr(RunErr("IndexOutOfRange", NoCmd, None, index_value.val))
           ELSE ROk(index_value.val.v)
  ELSE RErr(RunErr("CharIndex", NoCmd, None, index_value.val))

\* The index a cell's value stands for: an Int within the memory.
IndexFromValue(index_value, memory) ==
  IF index_value.tag # "Ok" THEN index_value
  ELSE IF index_value.val.t = "Int"
    THEN IF index_value.val.v < 0 \/ index_value.val.v >= Len(memory)
           THEN RErr(RunErr("IndexOutOfRange", NoCmd, None, index_value.val))
           ELSE ROk(index_value.val.v)
  ELSE RErr(RunErr("CharIndex", NoCmd, None, index_value.val))

IndexFromCell(cell, memory, command) ==
  IF cell.tag # "Ok" THEN cell
  ELSE IndexFromValue(get_from_memory(cell.val, command), memory)

\* get_index(command_value, memory, command): the literal index, or the
\* index held by the cell the operand points at.
get_index(command_value, memory, command) ==
  IF command_value.mode = "Value" THEN ROk(command_value.idx)
  ELSE IndexFromCell(MemoryAt(memory, command_value.idx), memory, command)

\* try_get_from_memory(memory)
try_get_from_memory(cell) ==
  IF cell # None THEN ROk(cell)
  ELSE RErr(RunErr("EmptyMemoryNew", NoCmd, None, None))

\* try_get_index(command_value, memory): get_index for the instruction
\* objects, whose errors carry no command.
TryIndexFromCell(cell, memory) ==
  IF cell.tag # "Ok" THEN cell
  ELSE IndexFromValue(try_get_from_memory(cell.val), memory)

try_get_index(command_value, memory) ==
  IF command_value.mode = "Value" THEN ROk(command_value.idx)
  ELSE TryIndexFromCell(MemoryAt(memory, command_value.idx), memory)

\* "get_from_memory(game_state.memory[index], command)?" after get_index:
\* the resolved index together with the value of the resolved cell.
ReadValue(index, value) ==
  IF value.tag # "Ok" THEN [value EXCEPT !.val = 0]
  ELSE ROk([index |-> index, value |-> value.val])

ReadAt(index, cell, command) ==
  IF cell.tag # "Ok" THEN [cell EXCEPT !.val = 0]
  ELSE ReadValue(index, get_from_memory(cell.val, command))

ReadIndex(index, memory, command) ==
  IF index.tag # "Ok" THEN [index EXCEPT !.val = 0]
  ELSE ReadAt(index.val, MemoryAt(memory, index.val), command)

ReadCell(command_value, memory, command) ==
  ReadIndex(get_index(command_value, memory, command), memory, command)

\* ------------------------------------------------------------- game state
\* GameState of one IO case (code/game_state.rs), as built by run_io and
\* run_io_new.
NewGameState(problem_io, memory) ==
  [input |-> problem_io.input, output |-> problem_io.output, memory |-> memory,
   acc |-> None, i_input |-> 0, i_output |-> 0, i_command |-> 0, speed |-> 0]

\* What one pass through the match of run_io does:
\*   Next  = fall through to "i_command += 1"      Goto = "continue" after a jump
\*   Break = leave the loop                        Err  = "?" returned a RunError
\*   Panic = the thread panicked
Arm(tag, gs, err) == [tag |-> tag, gs |-> gs, err |-> err]
\* ArmFail that has emptied the accumulator before the error is returned.
ArmFailClearsAcc(r, gs) == Arm(r.tag, [gs EXCEPT !.acc = None], r.err)
\* The arm returns the error or the panic of a helper: `?` in the arm.
ArmFail(r, gs) == Arm(r.tag, gs, r.err)

\* Command::Inbox that reads the value at the cursor and leaves the cursor.
InboxArmKeepsCursor(command, gs) ==
  IF gs.i_input = Len(gs.input) THEN Arm("Break", gs, NoErr)
  ELSE Arm("Next", [gs EXCEPT !.acc = gs.input[gs.i_input + 1]], NoErr)

\* Command::Inbox (program.rs:258-265)
InboxArm(command, gs) ==
  IF gs.i_input = Len(gs.input) THEN Arm("Break", gs, NoErr)
  ELSE Arm("Next", [gs EXCEPT !.acc = gs.input[gs.i_input + 1],
                              !.i_input = gs.i_input + 1], NoErr)

\* Outbox that puts the value out whatever is expected.
OutboxValueUnchecked(value, gs) ==
  IF value.tag # "Ok" THEN ArmFail(value, gs)
  ELSE Arm("Next", [gs EXCEPT !.i_output = gs.i_output + 1], NoErr)

\* Command::Outbox (program.rs:266-288)
OutboxValue(value, gs) ==
  IF value.tag # "Ok" THEN ArmFail(value, gs)
  ELSE IF gs.i_output = Len(gs.output)
    THEN Arm("Err", gs, RunErr("IncorrectOutput", NoCmd, None, gs.acc))
  ELSE IF value.val # gs.output[gs.i_output + 1]
    THEN Arm("Err", gs, RunErr("IncorrectOutput", NoCmd,
                               gs.output[gs.i_output + 1], value.val))
  ELSE Arm("Next", [gs EXCEPT !.i_output = gs.i_output + 1], NoErr)

OutboxArm(command, gs) == OutboxValue(get_acc(gs.acc, command), gs)

\* CopyFrom that asks for a value in the accumulator first.
CopyFromCellNeedsAcc(cell, gs) ==
  IF cell.tag # "Ok" THEN ArmFail(cell, gs)
  ELSE IF gs.acc = None THEN Arm("Err", gs, RunErr("EmptyAcc", NoCmd, None, None))
  ELSE Arm("Next", [gs EXCEPT !.acc = cell.val.value], NoErr)

\* Command::CopyFrom (program.rs:289-292)
CopyFromCell(cell, gs) ==
  IF cell.tag # "Ok" THEN ArmFail(cell, gs)
  ELSE Arm("Next", [gs EXCEPT !.acc = cell.val.value], NoErr)

CopyFromArm(command, gs) == CopyFromCell(ReadCell(command, gs.memory, command), gs)

\* CopyTo that moves the value: the accumulator is empty after it.
CopyToIndexMovesAcc(value, index, gs) ==
  IF index.tag # "Ok" THEN ArmFail(index, gs)
  ELSE IF index.val >= Len(gs.memory)
    THEN ArmFail(RPanic("memory index out of bounds"), gs)
  ELSE Arm("Next", [gs EXCEPT !.memory[index.val + 1] = value, !.acc = None], NoErr)

\* Command::CopyTo (program.rs:293-297)
CopyToIndex(value, index, gs) ==
  IF index.tag # "Ok" THEN ArmFail(index, gs)
  ELSE IF index.val >= Len(gs.memory)
    THEN ArmFail(RPanic("memory index out of bounds"), gs)
  ELSE Arm("Next", [gs EXCEPT !.memory[index.val + 1] = value], NoErr)

CopyToValue(value, command, gs) ==
  IF value.tag # "Ok" THEN ArmFail(value, gs)
  ELSE CopyToIndex(value.val, get_index(command, gs.memory, command), gs)

CopyToArm(command, gs) == CopyToValue(get_acc(gs.acc, command), command, gs)

\* The end of Add and Sub: the Option returned by Value::add / Value::sub
\* becomes the accumulator, or the error `kind`.
SetAcc(result, kind, command, gs) ==
  IF result = PanicValue
    THEN ArmFail(RPanic("arithmetic overflow"), gs)
  ELSE IF result = None THEN Arm("Err", gs, RunErr(kind, command, None, None))
  ELSE Arm("Next", [gs EXCEPT !.acc = result], NoErr)

\* Command::Add (program.rs:298-304)
AddCell(value, to_add, command, gs, checks) ==
  IF to_add.tag # "Ok" THEN ArmFail(to_add, gs)
  ELSE SetAcc(ValueAdd(value, to_add.val.value, checks), "Add", command, gs)

AddValue(value, command, gs, checks) ==
  IF value.tag # "Ok" THEN ArmFail(value, gs)
  ELSE AddCell(value.val, ReadCell(command, gs.memory, command), command, gs, checks)

AddArm(command, gs, checks) == AddValue(get_acc(gs.acc, command), command, gs, checks)

\* Sub with its operands the other way round: cell minus accumulator.
SubCellReversed(value, to_sub, command, gs, checks) ==
  IF to_sub.tag # "Ok" THEN ArmFail(to_sub, gs)
  ELSE SetAcc(ValueSub(to_sub.val.value, value, checks), "Sub", command, gs)

\* Command::Sub (program.rs:305-311)
SubCell(value, to_sub, command, gs, checks) ==
  IF to_sub.tag # "Ok" THEN ArmFail(to_sub, gs)
  ELSE SetAcc(ValueSub(value, to_sub.val.value, checks), "Sub", command, gs)

SubValue(value, command, gs, checks) ==
  IF value.tag # "Ok" THEN ArmFail(value, gs)
  ELSE SubCell(value.val, ReadCell(command, gs.memory, command), command, gs, checks)

SubArm(command, gs, checks) == SubValue(get_acc(gs.acc, command), command, gs, checks)

\* The end of a bump that leaves the accumulator out.
SetCellOnly(bumped, index, kind, command, gs) ==
  IF bumped = PanicValue
    THEN ArmFail(RPanic("arithmetic overflow"), gs)
  ELSE IF bumped = None THEN Arm("Err", gs, RunErr(kind, command, None, None))
  ELSE Arm("Next", [gs EXCEPT !.memory[index + 1] = bumped], NoErr)

\* The end of BumpUp and BumpDown: the bumped value goes to the cell and to
\* the accumulator, or the error `kind`.
SetCellAndAcc(bumped, index, kind, command, gs) ==
  IF bumped = PanicValue
    THEN ArmFail(RPanic("arithmetic overflow"), gs)
  ELSE IF bumped = None THEN Arm("Err", gs, RunErr(kind, command, None, None))
  ELSE Arm("Next", [gs EXCEPT !.memory[index + 1] = bumped, !.acc = bumped], NoErr)

\* Command::BumpUp (program.rs:312-320)
BumpUpCell(to_bump, command, gs, checks) ==
  IF to_bump.tag # "Ok" THEN ArmFail(to_bump, gs)
  ELSE SetCellAndAcc(ValueAdd(to_bump.val.value, VInt(1), checks),
                     to_bump.val.index, "Add", command, gs)

BumpUpArm(command, gs, checks) ==
  BumpUpCell(ReadCell(command, gs.memory, command), command, gs, checks)

\* Command::BumpDown (program.rs:321-329)
BumpDownCell(to_bump, command, gs, checks) ==
  IF to_bump.tag # "Ok" THEN ArmFail(to_bump, gs)
  ELSE SetCellAndAcc(ValueSub(to_bump.val.value, VInt(1), checks),
                     to_bump.val.index, "Sub", command, gs)

BumpDownArm(command, gs, checks) ==
  BumpDownCell(ReadCell(command, gs.memory, command), command, gs, checks)

\* "let index = self.get_label(label); game_state.i_command = index; continue"
GotoIndex(index, gs) ==
  IF index.tag # "Ok" THEN ArmFail(index, gs)
  ELSE Arm("Goto", [gs EXCEPT !.i_command = index.val], NoErr)

GotoLabel(program, label, gs) == GotoIndex(get_label(program, label), gs)

\* Command::Jump (program.rs:330-334)
JumpArm(program, command, gs) == GotoLabel(program, command.label, gs)

\* Command::JumpZero (program.rs:335-342)
JumpZeroValue(value, program, command, gs) ==
  IF value.tag # "Ok" THEN ArmFail(value, gs)
  ELSE IF ValueEqI32(value.val, 0) THEN GotoLabel(program, command.label, gs)
  ELSE Arm("Next", gs, NoErr)

JumpZeroArm(program, command, gs) ==
  JumpZeroValue(get_acc(gs.acc, command), program, command, gs)

\* Command::JumpNegative (program.rs:343-350)
JumpNegativeValue(value, program, command, gs) ==
  IF value.tag # "Ok" THEN ArmFail(value, gs)
  ELSE IF ValueLtI32(value.val, 0) THEN GotoLabel(program, command.label, gs)
  ELSE Arm("Next", gs, NoErr)

JumpNegativeArm(program, command, gs) ==
  JumpNegativeValue(get_acc(gs.acc, command), program, command, gs)

\* "match command { ... }" of run_io
MatchCommand(program, command, gs, checks) ==
  CASE command.op = "INBOX" -> InboxArm(command, gs)
    [] command.op = "OUTBOX" -> OutboxArm(command, gs)
    [] command.op = "COPYFROM" -> CopyFromArm(command, gs)
    [] command.op = "COPYTO" -> CopyToArm(command, gs)
    [] command.op = "ADD" -> AddArm(command, gs, checks)
    [] command.op = "SUB" -> SubArm(command, gs, checks)
    [] command.op = "BUMPUP" -> BumpUpArm(command, gs, checks)
    [] command.op = "BUMPDN" -> BumpDownArm(command, gs, checks)
    [] command.op = "JUMP" -> JumpArm(program, command, gs)
    [] command.op = "JUMPZ" -> JumpZeroArm(program, command, gs)
    [] command.op = "JUMPN" -> JumpNegativeArm(program, command, gs)
    [] OTHER -> Arm("Break", gs, NoErr)

\* "game_state.i_command += 1" at the end of the loop body, which a jump
\* ("continue"), a break and an error do not reach.
Advance(arm) ==
  IF arm.tag = "Next" THEN [arm EXCEPT !.gs.i_command = arm.gs.i_command + 1]
  ELSE arm

\* "let command = &self.commands[game_state.i_command]" and the match.
Fetch(program, gs, checks) ==
  IF gs.i_command >= Len(program.commands)
    THEN ArmFail(RPanic("command index out of bounds"), gs)
  ELSE Advance(MatchCommand(program, program.commands[gs.i_command + 1], gs, checks))

\* One pass through the loop of run_io: count the fetch, fetch, match, and
\* advance the program counter unless the arm jumped, broke or failed.
RunIoIteration(program, gs, checks) ==
  Fetch(program, [gs EXCEPT !.speed = gs.speed + 1], checks)

\* One pass through the loop of run_io with the width of the counter:
\* game_state.speed is a u32, and "game_state.speed += 1" at u32::MAX panics
\* in a build with overflow checks and wraps to 0 in one without.  `speed`
\* is the counter before the pass, u32::MAX kept symbolic.
RunIoIterationU32(program, gs, speed, checks) ==
  IF speed.max
    THEN IF checks THEN ArmFail(RPanic("arithmetic overflow"), gs)
         ELSE Fetch(program, [gs EXCEPT !.speed = 0], checks)
  ELSE RunIoIteration(program, [gs EXCEPT !.speed = speed.v], checks)

\* u32 values: u32::MAX does not fit the integers of the checker, so it is
\* kept symbolic; every step count that is counted up from 0 is far below it.
U32(n) == [max |-> FALSE, v |-> n]
U32_MAX == [max |-> TRUE, v |-> 0]
LtU32(n, m) == m.max \/ n < m.v

\* "game_state.speed - 1" on a u32: at 0 (the counter wrapped on the fetch
\* that ended the loop) the subtraction panics in a build with overflow
\* checks and wraps to u32::MAX in one without.
SpeedMinusOne(speed, checks) ==
  IF speed = 0
    THEN IF checks THEN RPanic("arithmetic overflow") ELSE ROk(U32_MAX)
  ELSE ROk(speed - 1)

\* RunIoResult that counts the halting fetch.
RunIoResultCountsHalt(gs, checks) ==
  IF gs.i_output = Len(gs.output) THEN ROk(gs.speed)
  ELSE RErr(RunErr("IncorrectOutput", NoCmd, gs.output[gs.i_output + 1], None))

\* RunIoResult that does not look at the output cursor.
RunIoResultAnyOutput(gs, checks) == SpeedMinusOne(gs.speed, checks)

\* The tail of run_io after the loop.
RunIoResult(gs, checks) ==
  IF gs.i_output = Len(gs.output) THEN SpeedMinusOne(gs.speed, checks)
  ELSE RErr(RunErr("IncorrectOutput", NoCmd, gs.output[gs.i_output + 1], None))

\* ------------------------------------------------- instruction objects
\* The objects behind the Command trait (code/commands/*.rs).  execute
\* returns Result<(), RunError> and may change the game state; next gives
\* the index of the following command.  Their errors carry no command.
Exec(tag, gs, err) == [tag |-> tag, gs |-> gs, err |-> err]
FromArm(arm) ==
  Exec(IF arm.tag = "Next" THEN "Ok" ELSE arm.tag, arm.gs, [arm.err EXCEPT !.cmd = NoCmd])

\* Command::next, the default of the trait (commands.rs:62-64)
DefaultNext(gs) == ROk(gs.i_command + 1)

\* Inbox::execute (inbox.rs:47-56): the game state after it ...
InboxExecute(self, gs) ==
  IF gs.i_input = Len(gs.input) THEN Exec("Ok", gs, NoErr)
  ELSE Exec("Ok", [gs EXCEPT !.acc = gs.input[gs.i_input + 1],
                             !.i_input = gs.i_input + 1], NoErr)

\* ... and the is_over cell of the object after it.
InboxExecuteFlag(over, gs) ==
  IF gs.i_input = Len(gs.input) THEN TRUE ELSE over

\* Inbox::next that ends the IO case whether or not the input was exhausted.
InboxNextEnds(over, gs) == ROk(UsizeMax)

\* Inbox::next (inbox.rs:58-64)
InboxNext(over, gs) ==
  IF over THEN ROk(UsizeMax) ELSE ROk(gs.i_command + 1)

\* Outbox::execute that leaves the output cursor where it was on a match.
OutboxExecuteKeepsCursor(self, gs) ==
  LET value == get_acc(gs.acc, NoCmd)
  IN IF value.tag # "Ok" THEN Exec(value.tag, gs, value.err)
     ELSE IF gs.i_output = Len(gs.output)
       THEN Exec("Err", gs, RunErr("IncorrectOutput", NoCmd, None, value.val))
     ELSE IF value.val # gs.output[gs.i_output + 1]
       THEN Exec("Err", gs, RunErr("IncorrectOutput", NoCmd,
                                   gs.output[gs.i_output + 1], value.val))
     ELSE Exec("Ok", gs, NoErr)

\* Outbox::execute (outbox.rs:27-50)
OutboxExecute(self, gs) ==
  LET value == get_acc(gs.acc, NoCmd)
  IN IF value.tag # "Ok" THEN Exec(value.tag, gs, value.err)
     ELSE IF gs.i_output = Len(gs.output)
       THEN Exec("Err", gs, RunErr("IncorrectOutput", NoCmd, None, value.val))
     ELSE IF value.val # gs.output[gs.i_output + 1]
       THEN Exec("Err", gs, RunErr("IncorrectOutput", NoCmd,
                                   gs.output[gs.i_output + 1], value.val))
     ELSE Exec("Ok", [gs EXCEPT !.i_output = gs.i_output + 1], NoErr)

\* CopyFrom::execute (copy_from.rs:21-26)
CopyFromExecute(self, gs) == FromArm(CopyFromArm(self, gs))
\* CopyTo::execute (copy_to.rs:21-27)
CopyToExecute(self, gs) == FromArm(CopyToArm(self, gs))
\* Add::execute (add.rs:21-28)
AddExecute(self, gs, checks) == FromArm(AddArm(self, gs, checks))
\* Sub::execute (sub.rs:21-28)
SubExecute(self, gs, checks) == FromArm(SubArm(self, gs, checks))
\* BumpUp::execute (bump_up.rs:24-31)
BumpUpExecute(self, gs, checks) == FromArm(BumpUpArm(self, gs, checks))
\* BumpDown::execute (bump_down.rs:24-31)
BumpDownExecute(self, gs, checks) == FromArm(BumpDownArm(self, gs, checks))

\* Jump::execute (jump.rs:21-23)
JumpExecute(self, gs) == Exec("Ok", gs, NoErr)
\* Jump::next (jump.rs:30-32)
JumpNext(program, self, gs) == get_label(program, self.label)

\* JumpZero::execute (jump_zero.rs:21-23)
JumpZeroExecute(self, gs) ==
  LET value == get_acc(gs.acc, NoCmd)
  IN IF value.tag # "Ok" THEN Exec(value.tag, gs, value.err) ELSE Exec("Ok", gs, NoErr)
\* JumpZero::next (jump_zero.rs:34-40)
JumpZeroNext(program, self, gs) ==
  IF gs.acc = None THEN RPanic("unwrap on empty accumulator")
  ELSE IF ValueEqI32(gs.acc, 0) THEN get_label(program, self.label)
  ELSE ROk(gs.i_command + 1)

\* JumpNegative::execute (jump_negative.rs:21-23)
JumpNegativeExecute(self, gs) ==
  LET value == get_acc(gs.acc, NoCmd)
  IN IF value.tag # "Ok" THEN Exec(value.tag, gs, value.err) ELSE Exec("Ok", gs, NoErr)
\* JumpNegative::next that also jumps on zero.
JumpNegativeNextOrZero(program, self, gs) ==
  IF gs.acc = None THEN RPanic("unwrap on empty accumulator")
  ELSE IF ValueLtI32(gs.acc, 1) THEN get_label(program, self.label)
  ELSE ROk(gs.i_command + 1)

\* JumpNegative::next (jump_negative.rs:34-42)
JumpNegativeNext(program, self, gs) ==
  IF gs.acc = None THEN RPanic("unwrap on empty accumulator")
  ELSE IF ValueLtI32(gs.acc, 0) THEN get_label(program, self.label)
  ELSE ROk(gs.i_command + 1)

\* Option<usize>
SomeIndex(i) == [some |-> TRUE, idx |-> i]
NoIndex == [some |-> FALSE, idx |-> 0]

\* Command::requires_index: the default of the trait (commands.rs:69-71) ...
DefaultRequiresIndex == NoIndex

\* ... and the one CopyFrom, CopyTo, Add, Sub, BumpUp and BumpDown share
\* (add.rs:30-35 and alike).
requires_index(self) ==
  IF self.op \in MemOps
    THEN IF self.mode = "Value" THEN NoIndex ELSE SomeIndex(self.idx)
  ELSE DefaultRequiresIndex

\* command.execute(&self, &mut game_state): dynamic dispatch
execute(self, gs, checks) ==
  CASE self.op = "INBOX" -> InboxExecute(self, gs)
    [] self.op = "OUTBOX" -> OutboxExecute(self, gs)
    [] self.op = "COPYFROM" -> CopyFromExecute(self, gs)
    [] self.op = "COPYTO" -> CopyToExecute(self, gs)
    [] self.op = "ADD" -> AddExecute(self, gs, checks)
    [] self.op = "SUB" -> SubExecute(self, gs, checks)
    [] self.op = "BUMPUP" -> BumpUpExecute(self, gs, checks)
    [] self.op = "BUMPDN" -> BumpDownExecute(self, gs, checks)
    [] self.op = "JUMP" -> JumpExecute(self, gs)
    [] self.op = "JUMPZ" -> JumpZeroExecute(self, gs)
    [] OTHER -> JumpNegativeExecute(self, gs)

\* command.next(&self, &game_state): dynamic dispatch
next(program, self, over, gs) ==
  CASE self.op = "INBOX" -> InboxNext(over, gs)
    [] self.op = "JUMP" -> JumpNext(program, self, gs)
    [] self.op = "JUMPZ" -> JumpZeroNext(program, self, gs)
    [] self.op = "JUMPN" -> JumpNegativeNext(program, self, gs)
    [] OTHER -> DefaultNext(gs)

\* RunIoNewResult that counts the Inbox the IO case ended on.
RunIoNewResultCountsHalt(gs, commands) ==
  IF gs.i_output = Len(gs.output) THEN ROk(gs.speed)
  ELSE RErr(RunErr("IncorrectOutput", NoCmd, gs.output[gs.i_output + 1], None))

\* The tail of run_io_new after the loop.
RunIoNewResult(gs, commands) ==
  IF gs.i_output = Len(gs.output)
    THEN LET speed_delta == IF gs.i_command = Len(commands) THEN 0 ELSE 1
         IN ROk(gs.speed - speed_delta)
  ELSE RErr(RunErr("IncorrectOutput", NoCmd, gs.output[gs.i_output + 1], None))

\* ------------------------------------------------------------------ Score
\* struct Score; speed_avg is the f64 quotient num / den (NaN for 0 / 0).
Score(size, speed_min, speed_max, avg_num, avg_den) ==
  [size |-> size, speed_min |-> speed_min, speed_max |-> speed_max,
   speed_avg |-> [num |-> avg_num, den |-> avg_den]]
NoScore == Score(0, U32(0), 0, 0, 0)

\* "self.commands.len() - 1" on a usize: for a Program without any command
\* (Program::default()) the subtraction panics in a build with overflow
\* checks and wraps to usize::MAX in one without.
ScoreSize(len, checks) ==
  IF len = 0
    THEN IF checks THEN RPanic("arithmetic overflow") ELSE ROk(UsizeMax)
  ELSE ROk(len - 1)

\* The record kept of one IO case: its position in problem.ios, how it ended
\* ("Ok", "Err" or "Panic"), the speed it returned, the instructions it
\* executed to completion, where it halted ("inbox", "end" or "-"), its error.
CaseOutcome(index, tag, speed, count, halt, err) ==
  [index |-> index, tag |-> tag, speed |-> speed, executed |-> count,
   halt |-> halt, err |-> err]

\* Result<Score, RunError> of run, or the panic that ended it.
RunResult(tag, score, err) == [tag |-> tag, score |-> score, err |-> err]

\* ------------------------------------------------------- inputs of the model
Program(commands, labels) == [commands |-> commands, labels |-> labels]
Problem(ios, memory, available_commands) ==
  [ios |-> ios, memory |-> memory, available_commands |-> available_commands]
ProblemIO(input, output) == [input |-> input, output |-> output]

NoLabels == [l \in {} |-> 0]
Labels1(l, i) == [k \in {l} |-> i]
Labels2(l1, i1, l2, i2) == [k \in {l1, l2} |-> IF k = l1 THEN i1 ELSE i2]

\* ProgramBuilder::build: the commands followed by End.
build(commands, labels) == Program(commands \o <<End>>, labels)

\* The instructions short programs are enumerated over.
Alphabet ==
  { Inbox, Outbox, Lit("COPYFROM", 0), Lit("COPYTO", 1), Ind("COPYTO", 0),
    Lit("ADD", 0), Lit("SUB", 1), Lit("BUMPUP", 0), Ind("BUMPDN", 1),
    Jmp("JUMP", "a"), Jmp("JUMPZ", "a"), Jmp("JUMPN", "b") }

RECURSIVE SeqsUpTo(_, _)
SeqsUpTo(S, n) ==
  IF n = 0 THEN { <<>> }
  ELSE LET shorter == SeqsUpTo(S, n - 1)
       IN shorter \cup { Append(q, x) : q \in { r \in shorter : Len(r) = n - 1 }, x \in S }

\* Label tables for a command list of n instructions.  ProgramBuilder binds a
\* label to an index of at most n (the End marker); a table written by hand
\* (as the tests of program.rs do) can hold any index.
LabelTables(n) ==
  { NoLabels, Labels2("a", 0, "b", n), Labels2("a", n + 1, "b", 0),
    Labels1("a", n + 2) }

ShortPrograms ==
  UNION { { build(c, t) : t \in LabelTables(Len(c)) } : c \in SeqsUpTo(Alphabet, MaxLen) }

\* Named programs.
CopyProgram == build(<<Inbox, Outbox>>, NoLabels)
EchoLoop == build(<<Inbox, Outbox, Jmp("JUMP", "a")>>, Labels1("a", 0))
CounterLoop ==
  build(<<Inbox, Jmp("JUMPZ", "b"), Ind("BUMPDN", 0), Jmp("JUMP", "a"), Outbox>>,
        Labels2("a", 0, "b", 4))
StoreLoop ==
  build(<<Inbox, Lit("COPYTO", 0), Lit("BUMPUP", 0), Outbox, Jmp("JUMP", "a")>>,
        Labels1("a", 0))
AddTwo ==
  build(<<Inbox, Lit("COPYTO", 1), Inbox, Lit("ADD", 1), Outbox>>, NoLabels)
NegLoop ==
  build(<<Inbox, Jmp("JUMPN", "a"), Outbox, Jmp("JUMP", "a")>>, Labels1("a", 0))
Spin == build(<<Jmp("JUMP", "a")>>, Labels1("a", 0))
FarIndex == build(<<Inbox, Lit("COPYTO", 2), Ind("COPYFROM", 2), Outbox>>, NoLabels)
PastEnd == Program(<<Inbox, Jmp("JUMP", "a"), End>>, Labels1("a", 3))
\* Program::default(): no command, not even the End marker, and no label.
ProgramDefault == Program(<<>>, NoLabels)

NamedPrograms ==
  { CopyProgram, EchoLoop, CounterLoop, StoreLoop, AddTwo, NegLoop, Spin,
    FarIndex, PastEnd, ProgramDefault }

A == VChar(65)
B == VChar(66)

IoCopy == << ProblemIO(<<VInt(5)>>, <<VInt(5)>>) >>
IoTwo ==
  << ProblemIO(<<VInt(0)>>, <<VInt(0)>>),
     ProblemIO(<<VInt(1), VInt(0)>>, <<VInt(1), VInt(0)>>) >>
IoMixed ==
  << ProblemIO(<<VInt(0)>>, <<>>), ProblemIO(<<VInt(-1), A>>, <<A>>),
     ProblemIO(<<>>, <<>>) >>
IoBump ==
  << ProblemIO(<<VInt(1)>>, <<VInt(2)>>), ProblemIO(<<VInt(1), VInt(3)>>, <<VInt(2), VInt(4)>>) >>
IoNone == << >>
IoThenNone == << ProblemIO(<<VInt(5)>>, <<VInt(5)>>), ProblemIO(<<>>, <<>>) >>
IoFailSecond ==
  << ProblemIO(<<VInt(5)>>, <<VInt(5)>>), ProblemIO(<<VInt(1)>>, <<VInt(2)>>),
     ProblemIO(<<>>, <<>>) >>

Problems ==
  { Problem(IoCopy, <<>>, ALL_COMMANDS),
    Problem(IoCopy, <<VInt(0)>>, {"INBOX", "OUTBOX"}),
    Problem(IoTwo, <<VInt(0), None>>, ALL_COMMANDS),
    Problem(IoTwo, <<VInt(1), VInt(5)>>, ALL_COMMANDS \ {"SUB"}),
    Problem(IoMixed, <<A, VInt(0)>>, ALL_COMMANDS),
    Problem(IoMixed, <<None, VInt(-1), B>>, ALL_COMMANDS),
    Problem(IoBump, <<VInt(I32Max), VInt(I32Min)>>, ALL_COMMANDS),
    Problem(IoBump, <<VInt(0), VInt(1), None>>, ALL_COMMANDS \ {"JUMPN"}),
    Problem(IoNone, <<VInt(0)>>, {}),
    Problem(IoThenNone, <<>>, ALL_COMMANDS),
    Problem(IoFailSecond, <<VInt(0)>>, ALL_COMMANDS) }

\* ------------------------------------------------------------------- state
VARIABLES
  program,     \* the Program: commands (closed by End) and label table
  problem,     \* the Problem: ios, memory template, available_commands
  checks,      \* whether the build panics on integer overflow (debug) or wraps
  is_over,     \* Inbox::is_over of the instruction object at each index of the list
  vres,        \* what validate returned, VNone before it was called
  phase,       \* "idle", "for" (head of the loop of run), "run_io" (inside
               \* run_io or run_io_new), "halted" (the thread panicked)
  io,          \* number of IO cases of the problem before the one being run
  gs,          \* GameState of the IO case being run (or last run)
  speed_min, speed_max, speed_avg,   \* the accumulators of run
  executed,    \* instructions executed to completion in the current IO case
  cases,       \* per finished IO case of the current run: its outcome
  results,     \* what each finished call of run (of run_io) returned, in call order
  op_in,       \* the arguments of a single call of a helper function
  op_out       \* what that call returned, NotCalled before it

vars ==
  << program, problem, checks, is_over, vres, phase, io, gs,
     speed_min, speed_max, speed_avg, executed, cases, results,
     op_in, op_out >>

VNone == VErr("NotValidated", "", 0)
NoCall == [command |-> NoCmd, memory |-> <<>>]
NotCalled == [fn |-> "-", ret |-> None]
IdleGameState == NewGameState(ProblemIO(<<>>, <<>>), <<>>)

Init ==
  /\ program \in ShortPrograms \cup NamedPrograms
  /\ problem \in Problems
  /\ checks \in BOOLEAN
  /\ is_over = <<>>
  /\ vres = VNone
  /\ phase = "idle"
  /\ io = 0
  /\ gs = IdleGameState
  /\ speed_min = U32_MAX
  /\ speed_max = 0
  /\ speed_avg = 0
  /\ executed = 0
  /\ cases = <<>>
  /\ results = <<>>
  /\ op_in = NoCall
  /\ op_out = NotCalled

\* Program::validate
Validate ==
  /\ phase = "idle"
  /\ vres = VNone
  /\ results = <<>>
  /\ vres' \in validate(program, problem)
  /\ UNCHANGED << op_in, op_out, program, problem, checks, is_over, phase, io, gs,
                  speed_min, speed_max, speed_avg, executed, cases, results >>

\* ---------------------------------------------------------- calls of run_io
\* run_io is the interpreter over the commands of the Program.  Program::run
\* does not call it (the call is commented out, program.rs:150), so it is
\* called here by itself: once per call, on one IO case of the Problem and
\* on the memory template of the Problem, as its two parameters.
\* run_io up to its loop: the GameState it builds from its parameters.
RunIoBegin ==
  /\ phase = "idle"
  /\ Len(results) < MaxRuns
  /\ \E k \in 1..Len(problem.ios) :
       /\ io' = k - 1
       /\ gs' = NewGameState(problem.ios[k], problem.memory)
  /\ executed' = 0
  /\ phase' = "run_io"
  /\ UNCHANGED << op_in, op_out, program, problem, checks, is_over, vres,
                  speed_min, speed_max, speed_avg, cases, results >>

\* run_io returned r (or panicked): the call is over and its outcome kept.
RunIoReturns(r, halt) ==
  /\ phase' = IF r.tag = "Panic" THEN "halted" ELSE "idle"
  /\ cases' = Append(cases, CaseOutcome(io + 1, r.tag, IF r.tag = "Ok" THEN r.val ELSE 0,
                                       executed, halt, r.err))
  /\ results' = Append(results, r)
  /\ UNCHANGED << io, speed_min, speed_max, speed_avg >>

\* Where run_io left its loop: at an Inbox without input or at End.
HaltedAt(prog, state) ==
  IF prog.commands[state.i_command + 1].op = "INBOX" THEN "inbox" ELSE "end"

\* What follows one pass through the loop of run_io: the loop goes on, or
\* (break) the tail of run_io returns, or the error returns from run_io, or
\* the panic ends it.
AfterIteration(it) ==
  /\ gs' = it.gs
  /\ CASE it.tag \in {"Next", "Goto"} ->
            /\ executed' = executed + 1
            /\ UNCHANGED << phase, io, speed_min, speed_max, speed_avg, cases, results >>
       [] it.tag = "Break" ->
            /\ RunIoReturns(RunIoResult(it.gs, checks), HaltedAt(program, it.gs))
            /\ UNCHANGED executed
       [] OTHER ->
            /\ RunIoReturns([tag |-> it.tag, val |-> None, err |-> it.err], "-")
            /\ UNCHANGED executed

\* One pass through the loop of run_io.
RunIoStep ==
  /\ phase = "run_io"
  /\ gs.speed < MaxSteps
  /\ AfterIteration(RunIoIteration(program, gs, checks))
  /\ UNCHANGED << op_in, op_out, program, problem, checks, is_over, vres >>

Next == Validate \/ RunIoBegin \/ RunIoStep

Spec == Init /\ [][Next]_vars

TypeOK == phase \in {"idle", "for", "run_io", "halted"}

\* ------------------------------------------------------------------- run
\* Program::run up to the loop over the IO cases.
Run ==
  /\ phase = "idle"
  /\ Len(results) < MaxRuns
  /\ phase' = "for"
  /\ io' = 0
  /\ speed_min' = U32_MAX
  /\ speed_max' = 0
  /\ speed_avg' = 0
  /\ cases' = <<>>
  /\ UNCHANGED << op_in, op_out, program, problem, checks, is_over, vres, gs, executed, results >>

\* The commands run_io_new runs: a list of six instruction objects it builds
\* itself on every call, whatever the commands of the Program are.
commands_new == << Inbox, Outbox, Inbox, Outbox, Inbox, Outbox >>

\* RunIoNewBegin that goes on with the cursors of the IO case before.
RunIoNewBeginKeepsCursors ==
  /\ phase = "for"
  /\ io < Len(problem.ios)
  /\ gs' = [NewGameState(problem.ios[io + 1], problem.memory)
              EXCEPT !.i_input = IF gs.i_input <= Len(problem.ios[io + 1].input)
                                   THEN gs.i_input ELSE 0]
  /\ is_over' = [i \in 1..Len(commands_new) |-> FALSE]
  /\ executed' = 0
  /\ phase' = "run_io"
  /\ UNCHANGED << op_in, op_out, program, problem, checks, vres, io,
                  speed_min, speed_max, speed_avg, cases, results >>

\* RunIoNewBegin that runs the objects of the IO case before, their
\* end-of-input flags as that case left them.
RunIoNewBeginSameObjects ==
  /\ phase = "for"
  /\ io < Len(problem.ios)
  /\ gs' = NewGameState(problem.ios[io + 1], problem.memory)
  /\ is_over' = IF is_over = <<>> THEN [i \in 1..Len(commands_new) |-> FALSE]
                ELSE is_over
  /\ executed' = 0
  /\ phase' = "run_io"
  /\ UNCHANGED << op_in, op_out, program, problem, checks, vres, io,
                  speed_min, speed_max, speed_avg, cases, results >>

\* run: the next IO case is handed to run_io_new with a clone of the memory
\* template; run_io_new builds its GameState and its six objects, every
\* Inbox with is_over = false.
RunIoNewBegin ==
  /\ phase = "for"
  /\ io < Len(problem.ios)
  /\ gs' = NewGameState(problem.ios[io + 1], problem.memory)
  /\ is_over' = [i \in 1..Len(commands_new) |-> FALSE]
  /\ executed' = 0
  /\ phase' = "run_io"
  /\ UNCHANGED << op_in, op_out, program, problem, checks, vres, io,
                  speed_min, speed_max, speed_avg, cases, results >>

\* ReturnErr that drops the error of the IO case and goes on with the next.
ReturnErrContinue(err) ==
  /\ phase' = "for"
  /\ io' = io + 1
  /\ cases' = Append(cases, CaseOutcome(io + 1, "Err", 0, executed, "-", err))
  /\ UNCHANGED << results, speed_min, speed_max, speed_avg >>

\* run: "?" on an Err of the IO case returns it from run.
ReturnErr(err) ==
  /\ phase' = "idle"
  /\ cases' = Append(cases, CaseOutcome(io + 1, "Err", 0, executed, "-", err))
  /\ results' = Append(results, RunResult("Err", NoScore, err))
  /\ UNCHANGED << io, speed_min, speed_max, speed_avg >>

\* A panic unwinds out of run; nothing runs after it.
Abort(err) ==
  /\ phase' = "halted"
  /\ cases' = Append(cases, CaseOutcome(io + 1, "Panic", 0, executed, "-", err))
  /\ results' = Append(results, RunResult("Panic", NoScore, err))
  /\ UNCHANGED << io, speed_min, speed_max, speed_avg >>

\* RecordSpeed that takes the speed of the latest IO case for the minimum.
RecordSpeedLast(speed, halt) ==
  /\ speed_max' = IF speed > speed_max THEN speed ELSE speed_max
  /\ speed_min' = U32(speed)
  /\ speed_avg' = speed_avg + speed
  /\ io' = io + 1
  /\ cases' = Append(cases, CaseOutcome(io + 1, "Ok", speed, executed, halt, NoErr))
  /\ phase' = "for"
  /\ UNCHANGED results

\* run: the body of the loop after an IO case returned Ok(speed).
RecordSpeed(speed, halt) ==
  /\ speed_max' = IF speed > speed_max THEN speed ELSE speed_max
  /\ speed_min' = IF LtU32(speed, speed_min) THEN U32(speed) ELSE speed_min
  /\ speed_avg' = speed_avg + speed
  /\ io' = io + 1
  /\ cases' = Append(cases, CaseOutcome(io + 1, "Ok", speed, executed, halt, NoErr))
  /\ phase' = "for"
  /\ UNCHANGED results

\* What run does with the Result of an IO case.
CaseReturns(r, halt) ==
  IF r.tag = "Ok" THEN RecordSpeed(r.val, halt) ELSE ReturnErr(r.err)

\* "game_state.i_command = command.next(&self, &game_state)"
AfterNext(nx, state, count) ==
  IF nx.tag = "Panic"
    THEN /\ gs' = state
         /\ Abort(nx.err)
         /\ UNCHANGED executed
  ELSE /\ gs' = [state EXCEPT !.i_command = nx.val]
       /\ executed' = count
       /\ UNCHANGED << phase, io, speed_min, speed_max, speed_avg, cases, results >>

\* "command.execute(&self, &mut game_state)?" and what follows it.
AfterExecute(ex, command, over, count) ==
  IF ex.tag = "Err"
    THEN /\ gs' = ex.gs
         /\ ReturnErr(ex.err)
         /\ UNCHANGED executed
  ELSE IF ex.tag = "Panic"
    THEN /\ gs' = ex.gs
         /\ Abort(ex.err)
         /\ UNCHANGED executed
  ELSE AfterNext(next(program, command, over, ex.gs), ex.gs, count)

\* The body of the loop of run_io_new for the object at index i (1-based here),
\* entered with the fetch counted.
ExecuteObject(i, command, counted) ==
  /\ is_over' = [is_over EXCEPT ![i] = IF command.op = "INBOX"
                                          THEN InboxExecuteFlag(is_over[i], counted)
                                          ELSE is_over[i]]
  /\ AfterExecute(execute(command, counted, checks), command, is_over'[i],
                  IF command.op = "INBOX" /\ counted.i_input = Len(counted.input)
                    THEN executed ELSE executed + 1)

\* One pass through the loop of run_io_new: count, execute, next.
RunIoNewStep ==
  /\ phase = "run_io"
  /\ gs.i_command < Len(commands_new)
  /\ ExecuteObject(gs.i_command + 1, commands_new[gs.i_command + 1],
                   [gs EXCEPT !.speed = gs.speed + 1])
  /\ UNCHANGED << op_in, op_out, program, problem, checks, vres >>

\* The loop condition of run_io_new fails: its tail, and the rest of the loop
\* body of run.
RunIoNewEnd ==
  /\ phase = "run_io"
  /\ gs.i_command >= Len(commands_new)
  /\ CaseReturns(RunIoNewResult(gs, commands_new),
                 IF gs.i_command = Len(commands_new) THEN "end" ELSE "inbox")
  /\ UNCHANGED << op_in, op_out, program, problem, checks, is_over, vres, gs, executed >>

\* run: the Score is built and returned, or building it panicked.
ReturnScore(size) ==
  IF size.tag = "Panic"
    THEN /\ phase' = "halted"
         /\ results' = Append(results, RunResult("Panic", NoScore, size.err))
  ELSE /\ phase' = "idle"
       /\ results' = Append(results,
             RunResult("Score",
                       Score(size.val, speed_min, speed_max, speed_avg,
                             Len(problem.ios)),
                       NoErr))

\* run: after the last IO case, the Score.
RunReturn ==
  /\ phase = "for"
  /\ io = Len(problem.ios)
  /\ ReturnScore(ScoreSize(Len(program.commands), checks))
  /\ UNCHANGED << op_in, op_out, program, problem, checks, is_over, vres, io, gs,
                  speed_min, speed_max, speed_avg, executed, cases >>

NextNew ==
  Validate \/ Run \/ RunIoNewBegin \/ RunIoNewStep \/ RunIoNewEnd \/ RunReturn

SpecNew == Init /\ [][NextNew]_vars

\* ---------------------------------------------------------- ProblemBuilder
\* game/problem.rs:44-135.  The title and the description are left out: no
\* operation reads them.  The HashMap of memory slots is a function from the
\* slots that were set.
NoSlots == [slot \in {} |-> None]
NoDim == [some |-> FALSE, dim |-> 0]
ProblemBuilderNew ==
  [ios |-> << >>, memory |-> NoSlots, memory_dim |-> NoDim, available_commands |-> {}]
add_io(builder, problem_io) == [builder EXCEPT !.ios = Append(builder.ios, problem_io)]
memory_dim(builder, dim) == [builder EXCEPT !.memory_dim = [some |-> TRUE, dim |-> dim]]
add_memory_slot(builder, slot, value) ==
  [builder EXCEPT !.memory = (slot :> value) @@ builder.memory]
enable_all_commands(builder) == [builder EXCEPT !.available_commands = ALL_COMMANDS]
\* enable_command that asks nothing about the command.
enable_command_any(builder, command) ==
  [builder EXCEPT !.available_commands = builder.available_commands \cup { command }]
enable_command(builder, command) ==
  IF command \in ALL_COMMANDS
    THEN [builder EXCEPT !.available_commands = builder.available_commands \cup { command }]
  ELSE builder
disable_command(builder, command) ==
  [builder EXCEPT !.available_commands = builder.available_commands \ { command }]
\* ProblemBuilder::build: memory_dim cells, those of the slots below
\* memory_dim filled.
BuildMemory(builder) ==
  [i \in 1..(IF builder.memory_dim.some THEN builder.memory_dim.dim ELSE 0) |->
     IF (i - 1) \in DOMAIN builder.memory THEN builder.memory[i - 1] ELSE None]
ProblemBuild(builder) ==
  Problem(builder.ios, BuildMemory(builder), builder.available_commands)

\* ---------------------------------------------------------------- compiler
\* compiler/compile.rs.  A source text is the sequence of its lines
\* (code.lines()), a line the sequence of its characters.
MaxLines == 3

Upper ==
  { "A", "B", "C", "D", "E", "F", "G", "H", "I", "J", "K", "L", "M" } \cup
  { "N", "O", "P", "Q", "R", "S", "T", "U", "V", "W", "X", "Y", "Z" }
Lower ==
  { "a", "b", "c", "d", "e", "f", "g", "h", "i", "j", "k", "l", "m" } \cup
  { "n", "o", "p", "q", "r", "s", "t", "u", "v", "w", "x", "y", "z" }
\* A character outside printable ASCII is written by its code point, one
\* element of the sequence per character.
AsciiDigit == { "0", "1", "2", "3", "4", "5", "6", "7", "8", "9" }
\* \d of the regex crate is the Unicode class Nd: the ASCII digits and the
\* decimal digits of the other scripts, for which ARABIC-INDIC DIGIT THREE
\* stands here.
Digit == AsciiDigit \cup { "U+0663" }
\* \s of the regex crate and char::is_whitespace of str::trim are the Unicode
\* property White_Space.
Space ==
  { " ", "\t", "\n", "\r", "\f", "U+000B", "U+0085", "U+00A0", "U+1680" } \cup
  { "U+2000", "U+2001", "U+2002", "U+2003", "U+2004", "U+2005", "U+2006" } \cup
  { "U+2007", "U+2008", "U+2009", "U+200A", "U+2028", "U+2029", "U+202F" } \cup
  { "U+205F", "U+3000" }

\* str::trim
RECURSIVE trim_start(_)
trim_start(s) == IF s # << >> /\ s[1] \in Space THEN trim_start(Tail(s)) ELSE s
RECURSIVE trim_end(_)
trim_end(s) ==
  IF s # << >> /\ s[Len(s)] \in Space THEN trim_end(SubSeq(s, 1, Len(s) - 1)) ELSE s
trim(s) == trim_end(trim_start(s))

\* str::starts_with, str::ends_with
starts_with(s, p) == Len(s) >= Len(p) /\ SubSeq(s, 1, Len(p)) = p
ends_with(s, p) == Len(s) >= Len(p) /\ SubSeq(s, Len(s) - Len(p) + 1, Len(s)) = p

\* str::to_string
RECURSIVE to_string(_)
to_string(s) == IF s = << >> THEN "" ELSE s[1] \o to_string(Tail(s))

\* Regex pieces.  class* from position i of s: the position after the run.
RECURSIVE RunEnd(_, _, _)
RunEnd(s, i, class) ==
  IF i <= Len(s) /\ s[i] \in class THEN RunEnd(s, i + 1, class) ELSE i
\* ^class+$
Matches(s, class) == s # << >> /\ \A i \in 1..Len(s) : s[i] \in class
\* The rest of s from position i.
From(s, i) == SubSeq(s, i, Len(s))

\* str::parse::<u32>() and str::parse::<usize>() of a string of digits:
\* "Err" when a digit is not an ASCII digit or the number is above the type's
\* maximum, "Ok" with the number v when it is at most 2^31 - 1, "Wide" with
\* the decimal digits of the number (no leading zero) when it is above that.
IntDigits == << "2", "1", "4", "7", "4", "8", "3", "6", "4", "7" >>
U32Digits == << "4", "2", "9", "4", "9", "6", "7", "2", "9", "5" >>
UsizeDigits ==
  << "1", "8", "4", "4", "6", "7", "4", "4", "0", "7", "3", "7", "0", "9", "5", "5", "1", "6", "1", "5" >>
DigitValue(c) ==
  CASE c = "0" -> 0 [] c = "1" -> 1 [] c = "2" -> 2 [] c = "3" -> 3 [] c = "4" -> 4
    [] c = "5" -> 5 [] c = "6" -> 6 [] c = "7" -> 7 [] c = "8" -> 8 [] OTHER -> 9
RECURSIVE StripZeros(_)
StripZeros(d) == IF Len(d) > 1 /\ d[1] = "0" THEN StripZeros(Tail(d)) ELSE d
RECURSIVE Decimal(_)
Decimal(d) ==
  IF d = << >> THEN 0
  ELSE 10 * Decimal(SubSeq(d, 1, Len(d) - 1)) + DigitValue(d[Len(d)])
RECURSIVE Greater(_, _)
Greater(d, limit) ==
  /\ d # << >>
  /\ \/ DigitValue(d[1]) > DigitValue(limit[1])
     \/ d[1] = limit[1] /\ Greater(Tail(d), Tail(limit))
Exceeds(d, limit) == Len(d) > Len(limit) \/ (Len(d) = Len(limit) /\ Greater(d, limit))
ParseStripped(d, limit) ==
  IF Exceeds(d, limit) THEN [tag |-> "Err", v |-> 0, digits |-> << >>]
  ELSE IF ~Exceeds(d, IntDigits) THEN [tag |-> "Ok", v |-> Decimal(d), digits |-> << >>]
  ELSE [tag |-> "Wide", v |-> 0, digits |-> d]
parse(d, limit) ==
  IF \E i \in 1..Len(d) : d[i] \notin AsciiDigit
    THEN [tag |-> "Err", v |-> 0, digits |-> << >>]
  ELSE ParseStripped(StripZeros(d), limit)

\* enum ParsedLine, with None for "no match", Illegal for Err(IllegalLine) and
\* Panic for an unwrap that failed.
Parsed(kind, command, label) == [kind |-> kind, command |-> command, label |-> label]
NoMatch == Parsed("None", NoCmd, "")
ParsePanic == Parsed("Panic", NoCmd, "")

\* "\s+(\d+)$" after a word that ends before position a, the white space
\* ending before position b: the number is parsed and unwrapped.
UintArgument(s, a, b, kind) ==
  IF b > a /\ Matches(From(s, b), Digit)
    THEN IF parse(From(s, b), U32Digits).tag = "Err" THEN ParsePanic
         ELSE Parsed(kind, NoCmd, "")
  ELSE NoMatch

\* try_compile_comment: ^COMMENT\s+(\d+)$
KwComment == << "C", "O", "M", "M", "E", "N", "T" >>
try_compile_comment(instruction) ==
  IF starts_with(instruction, KwComment)
    THEN UintArgument(instruction, Len(KwComment) + 1,
                      RunEnd(instruction, Len(KwComment) + 1, Space), "Comment")
  ELSE NoMatch

\* try_compile_define: ^DEFINE\s+(COMMENT|LABEL)\s+(\d+)$
KwDefine == << "D", "E", "F", "I", "N", "E" >>
KwLabel == << "L", "A", "B", "E", "L" >>
DefineType(s, a, b) ==
  IF b <= a THEN NoMatch
  ELSE IF starts_with(From(s, b), KwComment)
    THEN UintArgument(s, b + Len(KwComment), RunEnd(s, b + Len(KwComment), Space), "Define")
  ELSE IF starts_with(From(s, b), KwLabel)
    THEN UintArgument(s, b + Len(KwLabel), RunEnd(s, b + Len(KwLabel), Space), "Define")
  ELSE NoMatch
try_compile_define(instruction) ==
  IF starts_with(instruction, KwDefine)
    THEN DefineType(instruction, Len(KwDefine) + 1,
                    RunEnd(instruction, Len(KwDefine) + 1, Space))
  ELSE NoMatch

\* try_compile_new_label: ^([a-z]+):$
try_compile_new_label(instruction) ==
  IF /\ instruction # << >>
     /\ instruction[Len(instruction)] = ":"
     /\ Matches(SubSeq(instruction, 1, Len(instruction) - 1), Lower)
    THEN Parsed("Label", NoCmd, to_string(SubSeq(instruction, 1, Len(instruction) - 1)))
  ELSE NoMatch

\* try_compile_command_value: ^(\[\d+]|\d+)$, the number parsed and
\* unwrapped.  Some(CommandValue) holds the number as idx, or as its digits
\* (wide) when it is above 2^31 - 1.
CommandValue(mode, number) ==
  IF number.tag = "Err" THEN [tag |-> "Panic", mode |-> mode, idx |-> 0, wide |-> << >>]
  ELSE [tag |-> "Some", mode |-> mode, idx |-> number.v, wide |-> number.digits]
try_compile_command_value(value) ==
  IF Matches(value, Digit) THEN CommandValue("Value", parse(value, UsizeDigits))
  ELSE IF /\ Len(value) >= 3
          /\ value[1] = "["
          /\ value[Len(value)] = "]"
          /\ Matches(SubSeq(value, 2, Len(value) - 1), Digit)
    THEN CommandValue("Index", parse(SubSeq(value, 2, Len(value) - 1), UsizeDigits))
  ELSE [tag |-> "None", mode |-> "-", idx |-> 0, wide |-> << >>]

\* try_compile_label: ^([a-z]+)$
try_compile_label(label) ==
  IF Matches(label, Lower) THEN [tag |-> "Some", label |-> to_string(label)]
  ELSE [tag |-> "None", label |-> ""]

\* A Command whose CommandValue holds a number above 2^31 - 1, the number
\* as its decimal digits.
CmdWide(op, mode, wide) == [op |-> op, mode |-> mode, wide |-> wide, label |-> ""]
CommandOf(command, value) ==
  IF value.wide = << >> THEN Cmd(command, value.mode, value.idx, "")
  ELSE CmdWide(command, value.mode, value.wide)

\* try_compile_command: ^([A-Z]+)\s*(.*)$ and the match on the keyword
WithValue(command, value) ==
  IF value.tag = "Some" THEN Parsed("Command", CommandOf(command, value), "")
  ELSE IF value.tag = "None" THEN NoMatch
  ELSE ParsePanic
WithLabel(command, label) ==
  IF label.tag = "Some" THEN Parsed("Command", Jmp(command, label.label), "")
  ELSE NoMatch
MatchKeyword(command, arg) ==
  IF command \in { "INBOX", "OUTBOX" }
    THEN IF arg = << >> THEN Parsed("Command", Cmd(command, "-", 0, ""), "") ELSE NoMatch
  ELSE IF command \in MemOps THEN WithValue(command, try_compile_command_value(arg))
  ELSE IF command \in JumpOps THEN WithLabel(command, try_compile_label(arg))
  ELSE NoMatch
KeywordAndArg(s, k) ==
  IF k = 1 THEN NoMatch
  ELSE MatchKeyword(to_string(SubSeq(s, 1, k - 1)), From(s, RunEnd(s, k, Space)))
try_compile_command(instruction) ==
  KeywordAndArg(instruction, RunEnd(instruction, 1, Upper))

\* compile_instruction: the first shape the trimmed line has, or
\* Err(IllegalLine(line)).
OrElse(first, second) == IF first.kind # "None" THEN first ELSE second
Classify(line) ==
  IF line = << >> THEN Parsed("Empty", NoCmd, "")
  ELSE IF starts_with(line, << "-", "-" >>) /\ ends_with(line, << "-", "-" >>)
    THEN Parsed("CommentedCode", NoCmd, "")
  ELSE OrElse(try_compile_comment(line),
       OrElse(try_compile_define(line),
       OrElse(try_compile_new_label(line),
       OrElse(try_compile_command(line),
              Parsed("Illegal", NoCmd, to_string(line))))))
compile_instruction(instruction) == Classify(trim(instruction))

\* ProgramBuilder (program.rs:438-476)
ProgramBuilderNew == [commands |-> << >>, labels |-> NoLabels]
add_command_ref(builder, command) ==
  [builder EXCEPT !.commands = Append(builder.commands, command)]
\* add_label_ref that keeps the index a label already has.
add_label_ref_first(builder, label) ==
  [builder EXCEPT !.labels = builder.labels @@ (label :> Len(builder.commands))]
\* add_label_ref that binds the label one instruction further.
add_label_ref_after(builder, label) ==
  [builder EXCEPT !.labels = (label :> (Len(builder.commands) + 1)) @@ builder.labels]
add_label_ref(builder, label) ==
  [builder EXCEPT !.labels = (label :> Len(builder.commands)) @@ builder.labels]

\* Result<Program, ParseError> of compile_code, or the panic that ended it.
Compiled(tag, prog, line) == [tag |-> tag, program |-> prog, line |-> line]
NoProgram == Program(<< >>, NoLabels)

\* compile_code: the loop over the lines from line i on, and its match.
RECURSIVE CompileLines(_, _, _)
RECURSIVE MatchParsed(_, _, _, _)
MatchParsed(parsed, lines, i, builder) ==
  IF parsed.kind = "Illegal" THEN Compiled("Err", NoProgram, parsed.label)
  ELSE IF parsed.kind = "Panic" THEN Compiled("Panic", NoProgram, "")
  ELSE IF parsed.kind = "Label"
    THEN CompileLines(lines, i + 1, add_label_ref(builder, parsed.label))
  ELSE IF parsed.kind = "Command"
    THEN CompileLines(lines, i + 1, add_command_ref(builder, parsed.command))
  ELSE IF parsed.kind = "Define"
    THEN Compiled("Ok", build(builder.commands, builder.labels), "")
  ELSE CompileLines(lines, i + 1, builder)
CompileLines(lines, i, builder) ==
  IF i > Len(lines) THEN Compiled("Ok", build(builder.commands, builder.labels), "")
  ELSE MatchParsed(compile_instruction(lines[i]), lines, i, builder)
compile_code(code) == CompileLines(code, 1, ProgramBuilderNew)

\* ------------------------------------------- single calls of the helpers
\* The instructions a helper is called on: every instruction kind, the memory
\* instructions with a literal and with an indirect operand up to MaxCell.
OpCommands ==
  { Inbox, Outbox, Jmp("JUMP", "a"), Jmp("JUMPZ", "a"), Jmp("JUMPN", "a") }
    \cup { Cmd(op, mode, i, "") : op \in MemOps, mode \in {"Value", "Index"},
                                   i \in 0..MaxCell }

\* The cells and memories a helper is called on.
OpCells ==
  { None, A, VInt(I32Max), VInt(I32Min) } \cup { VInt(n) : n \in (-1)..(MaxCell + 1) }
OpMemories == SeqsUpTo(OpCells, MaxCell)

\* The instruction objects execute and next are called on, the program that
\* owns one of them (at index 1, after an Inbox), and the game states of
\* the calls: tapes of up to MaxTape values with a cursor on or past them.
OpObjects == { Inbox, Outbox, Jmp("JUMP", "a"), Jmp("JUMPZ", "a"), Jmp("JUMPN", "a") }
OpProgram(command) == build(<< Inbox, command >>, Labels1("a", 0))
OpTapes == SeqsUpTo({ VInt(0), A }, MaxTape)
OpAccs == { None, VInt(0), VInt(-1), A }
OpGameStates ==
  { [input |-> i, output |-> o, memory |-> m, acc |-> a, i_input |-> ii,
     i_output |-> io_, i_command |-> ic, speed |-> 1] :
      i \in OpTapes, o \in OpTapes, m \in { <<>>, << A >> }, a \in OpAccs,
      ii \in 0..MaxTape, io_ \in 0..MaxTape, ic \in 0..1 }

\* A call of requires_index, get_index or try_get_index ...
InitIndexCall ==
  /\ program = CopyProgram
  /\ phase = "idle"
  /\ gs = IdleGameState
  /\ is_over = [i \in 1..Len(program.commands) |-> FALSE]
  /\ op_in \in [command : OpCommands, memory : OpMemories]

\* ... or of execute and next of an instruction object, whose Inbox may
\* have seen the end of an input before.
InitObjectCall ==
  /\ phase = "call"
  /\ gs \in { g \in OpGameStates : g.i_input <= Len(g.input) /\ g.i_output <= Len(g.output) }
  /\ op_in \in [command : OpObjects, memory : { gs.memory }]
  /\ program = OpProgram(op_in.command)
  /\ is_over \in { [i \in 1..Len(program.commands) |-> over /\ i = 2] :
                     over \in IF op_in.command = Inbox THEN BOOLEAN ELSE { FALSE } }

\* ... or of one pass through the match of run_io on a memory instruction,
\* in a build with or without overflow checks ...
OpArmAccs ==
  { None, A, B, VInt(0), VInt(-1), VInt(1), VInt(I32Max), VInt(I32Min) }

InitArmCall ==
  /\ phase = "arm"
  /\ program = CopyProgram
  /\ is_over = [i \in 1..Len(program.commands) |-> FALSE]
  /\ gs \in { [NewGameState(ProblemIO(<<>>, <<>>), m) EXCEPT !.acc = a] :
                 m \in OpMemories, a \in OpArmAccs }
  /\ op_in \in [command : { c \in OpCommands : c.op \in MemOps }, memory : { gs.memory }]
  /\ checks \in BOOLEAN

\* ... or of Value::add or Value::sub.
OpValues ==
  { A, B } \cup { VInt(n) : n \in { I32Min, I32Min + 1, -1, 0, 1, I32Max - 1, I32Max } }

InitValueCall ==
  /\ phase = "value"
  /\ program = CopyProgram
  /\ is_over = [i \in 1..Len(program.commands) |-> FALSE]
  /\ gs = IdleGameState
  /\ op_in \in [fn : { "add", "sub" }, lhs : OpValues, rhs : OpValues]
  /\ checks \in BOOLEAN

\* ... or of one pass through the loop of run_io in a program that jumps in a
\* circle: every pass leaves the game state as it found it but for the
\* counter, so the loop comes to its top with every value of the counter.
\* The pass at the End marker is the one that leaves the loop for its tail.
OpCycles == { Spin, build(<< Jmp("JUMP", "b"), Jmp("JUMP", "a") >>, Labels2("a", 0, "b", 1)) }
OpSpeeds == { U32(0), U32(1), U32_MAX }

InitPassCall ==
  /\ phase = "pass"
  /\ program \in OpCycles
  /\ is_over = [i \in 1..Len(program.commands) |-> FALSE]
  /\ gs \in { [NewGameState(ProblemIO(<<>>, <<>>), <<>>) EXCEPT !.i_command = i] :
                 i \in 0..(Len(program.commands) - 1) }
  /\ op_in \in [command : { program.commands[gs.i_command + 1] }, memory : { <<>> },
                 speed : OpSpeeds]
  /\ checks \in BOOLEAN

\* ... or of compile_code on a source text of up to MaxLines lines.
LineBlank == << " ", " " >>
LineDashes == << "-", "-", " ", "x", " ", "-", "-" >>
LineComment == << "C", "O", "M", "M", "E", "N", "T", " ", "1" >>
LineDefineComment == << "D", "E", "F", "I", "N", "E", " ", "C", "O", "M", "M", "E", "N", "T", " ", "0" >>
LineDefineLabel == << "D", "E", "F", "I", "N", "E", " ", " ", "L", "A", "B", "E", "L", " ", "1" >>
LineLabelA == << "a", ":" >>
LineLabelB == << " ", "b", ":", " " >>
LineInbox == << "I", "N", "B", "O", "X" >>
LineOutbox == << "\t", "O", "U", "T", "B", "O", "X" >>
LineJumpA == << "J", "U", "M", "P", " ", "a" >>
LineJumpzB == << "J", "U", "M", "P", "Z", " ", "b" >>
LineCopyFrom == << "C", "O", "P", "Y", "F", "R", "O", "M", " ", "0" >>
LineAdd == << "A", "D", "D", " ", "[", "1", "]" >>
LineWord == << " ", "o", "o", "p", "s", " " >>
LineJumpNoLabel == << "J", "U", "M", "P" >>
LineInboxArg == << "I", "N", "B", "O", "X", " ", "x" >>
LineInboxCr == << "U+00A0", "I", "N", "B", "O", "X", "\r" >>
LineCommentWide == << "C", "O", "M", "M", "E", "N", "T", " ", "4", "2", "9", "4", "9", "6", "7", "2", "9", "6" >>
\* Long numbers: 2^31 - 1, 2^32, usize::MAX and usize::MAX + 1.
ArgIntMax == IntDigits
ArgU32Wide == << "4", "2", "9", "4", "9", "6", "7", "2", "9", "6" >>
ArgUsizeMax == UsizeDigits
ArgUsizeWide ==
  << "1", "8", "4", "4", "6", "7", "4", "4", "0", "7", "3", "7", "0", "9", "5", "5", "1", "6", "1", "6" >>
LineCopyFromWide == << "C", "O", "P", "Y", "F", "R", "O", "M", " " >> \o ArgU32Wide
LineEmpty == << >>
OpLines ==
  { LineEmpty, LineBlank, LineDashes, LineComment, LineDefineComment, LineDefineLabel,
    LineLabelA, LineLabelB, LineInbox, LineOutbox, LineJumpA, LineJumpzB,
    LineCopyFrom, LineAdd, LineWord, LineJumpNoLabel, LineInboxArg, LineInboxCr,
    LineCommentWide, LineCopyFromWide }
OpSources == SeqsUpTo(OpLines, MaxLines)

InitCompileCall ==
  /\ phase = "compile"
  /\ program = CopyProgram
  /\ is_over = [i \in 1..Len(program.commands) |-> FALSE]
  /\ gs = IdleGameState
  /\ op_in \in [code : OpSources]
  /\ checks = FALSE

\* ... or of compile_instruction on one line, keyword \o gap \o arg, and of
\* try_compile_command_value and try_compile_label on the argument string arg
\* of up to MaxArg characters (or one of the long numbers).
MaxArg == 3
KwInbox == << "I", "N", "B", "O", "X" >>
KwOutbox == << "O", "U", "T", "B", "O", "X" >>
KwCopyFrom == << "C", "O", "P", "Y", "F", "R", "O", "M" >>
KwBumpUp == << "B", "U", "M", "P", "U", "P" >>
KwJump == << "J", "U", "M", "P" >>
KwJumpN == << "J", "U", "M", "P", "N" >>
KwNop == << "N", "O", "P" >>
OpKeywords == { KwInbox, KwOutbox, KwCopyFrom, KwBumpUp, KwJump, KwJumpN, KwNop }
OpGaps == { << >>, << " " >>, << "\t", " " >>, << "U+2003", "\f" >> }
ArgAlphabet == { "0", "7", "[", "]", "a", "z", " ", "A", "U+0663" }
OpArgs ==
  SeqsUpTo(ArgAlphabet, MaxArg) \cup
  { ArgIntMax, ArgU32Wide, ArgUsizeMax, ArgUsizeWide, << "[" >> \o ArgUsizeWide \o << "]" >> }
InitParseCall ==
  /\ phase = "parse"
  /\ program = CopyProgram
  /\ is_over = [i \in 1..Len(program.commands) |-> FALSE]
  /\ gs = IdleGameState
  /\ \/ op_in \in [fn : { "compile_instruction" }, keyword : OpKeywords,
                   gap : OpGaps, arg : OpArgs]
     \/ op_in \in [fn : { "try_compile_command_value", "try_compile_label" },
                   keyword : { << >> }, gap : { << >> }, arg : OpArgs]
  /\ checks = FALSE

\* ... or a ProblemBuilder on which up to MaxCalls methods are called before
\* build, and the Problem it builds.
MaxCalls == 3
OpKeys == { "INBOX", "COPYFROM", "JUMPN", "NOP", "inbox" }
OpDims == { 0, 2 }
OpSlots == { 0, 2 }
InitBuilderCall ==
  /\ phase = "builder"
  /\ program = CopyProgram
  /\ is_over = [i \in 1..Len(program.commands) |-> FALSE]
  /\ gs = IdleGameState
  /\ op_in = [builder |-> ProblemBuilderNew, calls |-> 0, built |-> FALSE]
  /\ checks = FALSE

InitOps ==
  /\ \/ InitIndexCall /\ checks = FALSE
     \/ InitObjectCall /\ checks = FALSE
     \/ InitArmCall
     \/ InitValueCall
     \/ InitPassCall
     \/ InitCompileCall
     \/ InitParseCall
     \/ InitBuilderCall
  /\ problem = Problem(IoCopy, <<>>, ALL_COMMANDS)
  /\ vres = VNone
  /\ io = 0
  /\ speed_min = U32_MAX
  /\ speed_max = 0
  /\ speed_avg = 0
  /\ executed = 0
  /\ cases = <<>>
  /\ results = <<>>
  /\ op_out = NotCalled

Returned(fn, ret) ==
  /\ op_out = NotCalled
  /\ op_out' = [fn |-> fn, ret |-> ret]
  /\ UNCHANGED << op_in, program, problem, checks, is_over, vres, phase, io, gs,
                  speed_min, speed_max, speed_avg, executed, cases, results >>

\* command.requires_index()
CallRequiresIndex ==
  /\ phase = "idle"
  /\ Returned("requires_index", requires_index(op_in.command))

\* get_index(command_value, &memory, command) of a memory instruction
CallGetIndex ==
  /\ phase = "idle"
  /\ op_in.command.op \in MemOps
  /\ Returned("get_index", get_index(op_in.command, op_in.memory, op_in.command))

\* try_get_index(command_value, &memory) of a memory instruction
CallTryGetIndex ==
  /\ phase = "idle"
  /\ op_in.command.op \in MemOps
  /\ Returned("try_get_index", try_get_index(op_in.command, op_in.memory))

\* command.execute(program, &mut game_state) returned.
ExecuteReturns(e) ==
  /\ gs' = e.gs
  /\ is_over' = IF op_in.command.op = "INBOX"
                  THEN [is_over EXCEPT ![2] = InboxExecuteFlag(is_over[2], gs)]
                  ELSE is_over
  /\ op_out' = [fn |-> "execute", ret |-> [tag |-> e.tag, err |-> e.err]]
  /\ UNCHANGED << op_in, program, problem, checks, vres, phase, io,
                  speed_min, speed_max, speed_avg, executed, cases, results >>

\* One call of execute on the instruction object ...
CallExecute ==
  /\ phase = "call"
  /\ op_out = NotCalled
  /\ ExecuteReturns(execute(op_in.command, gs, checks))

\* ... and, when it returned Ok, of next (as the loop of run_io_new does).
CallNext ==
  /\ phase = "call"
  /\ op_out.fn = "execute"
  /\ op_out.ret.tag = "Ok"
  /\ op_out' = [fn |-> "next", ret |-> next(program, op_in.command, is_over[2], gs)]
  /\ UNCHANGED << op_in, program, problem, checks, is_over, vres, phase, io, gs,
                  speed_min, speed_max, speed_avg, executed, cases, results >>

\* The arm of the match of run_io for the command is through.
ArmReturns(arm) ==
  /\ gs' = arm.gs
  /\ op_out' = [fn |-> "arm", ret |-> [tag |-> arm.tag, err |-> arm.err]]
  /\ UNCHANGED << op_in, program, problem, checks, is_over, vres, phase, io,
                  speed_min, speed_max, speed_avg, executed, cases, results >>

\* One pass through the match of run_io on a memory instruction.
CallArm ==
  /\ phase = "arm"
  /\ op_out = NotCalled
  /\ ArmReturns(MatchCommand(program, op_in.command, gs, checks))

\* The pass through the loop of run_io is through.
PassReturns(it) ==
  /\ gs' = it.gs
  /\ op_out' = [fn |-> "pass", ret |-> [tag |-> it.tag, err |-> it.err]]
  /\ UNCHANGED << op_in, program, problem, checks, is_over, vres, phase, io,
                  speed_min, speed_max, speed_avg, executed, cases, results >>

\* One pass through the loop of run_io, the counter included.
CallPass ==
  /\ phase = "pass"
  /\ op_out = NotCalled
  /\ PassReturns(RunIoIterationU32(program, gs, op_in.speed, checks))

\* The tail of run_io after a pass that left the loop.
CallTail ==
  /\ phase = "pass"
  /\ op_out.fn = "pass"
  /\ op_out.ret.tag = "Break"
  /\ op_out' = [fn |-> "tail", ret |-> RunIoResult(gs, checks)]
  /\ UNCHANGED << op_in, program, problem, checks, is_over, vres, phase, io, gs,
                  speed_min, speed_max, speed_avg, executed, cases, results >>

\* compile_code(code)
CallCompileCode ==
  /\ phase = "compile"
  /\ Returned("compile_code", compile_code(op_in.code))

\* compile_instruction(keyword \o gap \o arg)
CallCompileInstruction ==
  /\ phase = "parse"
  /\ op_in.fn = "compile_instruction"
  /\ Returned("compile_instruction",
              compile_instruction(op_in.keyword \o op_in.gap \o op_in.arg))

\* try_compile_command_value(arg)
CallTryCompileCommandValue ==
  /\ phase = "parse"
  /\ op_in.fn = "try_compile_command_value"
  /\ Returned("try_compile_command_value", try_compile_command_value(op_in.arg))

\* try_compile_label(arg)
CallTryCompileLabel ==
  /\ phase = "parse"
  /\ op_in.fn = "try_compile_label"
  /\ Returned("try_compile_label", try_compile_label(op_in.arg))

\* A method of the builder, called with arg, that leaves the builder after.
BuilderReturns(fn, arg, after) ==
  /\ ~op_in.built
  /\ op_in.calls < MaxCalls
  /\ op_in' = [op_in EXCEPT !.builder = after, !.calls = @ + 1]
  /\ op_out' = [fn |-> fn,
                ret |-> [arg |-> arg, before |-> op_in.builder.available_commands,
                         result |-> FALSE]]
  /\ UNCHANGED << program, problem, checks, is_over, vres, phase, io, gs,
                  speed_min, speed_max, speed_avg, executed, cases, results >>

\* builder.add_io(problem_io)
CallAddIo ==
  /\ phase = "builder"
  /\ BuilderReturns("add_io", "", add_io(op_in.builder, IoCopy[1]))

\* builder.memory_dim(dim)
CallMemoryDim ==
  /\ phase = "builder"
  /\ \E dim \in OpDims :
       BuilderReturns("memory_dim", "", memory_dim(op_in.builder, dim))

\* builder.add_memory_slot(slot, value)
CallAddMemorySlot ==
  /\ phase = "builder"
  /\ \E slot \in OpSlots :
       BuilderReturns("add_memory_slot", "", add_memory_slot(op_in.builder, slot, VInt(1)))

\* builder.enable_all_commands()
CallEnableAllCommands ==
  /\ phase = "builder"
  /\ BuilderReturns("enable_all_commands", "", enable_all_commands(op_in.builder))

\* builder.enable_command(command)
CallEnableCommand ==
  /\ phase = "builder"
  /\ \E command \in OpKeys :
       BuilderReturns("enable_command", command, enable_command(op_in.builder, command))

\* builder.disable_command(command)
CallDisableCommand ==
  /\ phase = "builder"
  /\ \E command \in OpKeys :
       BuilderReturns("disable_command", command, disable_command(op_in.builder, command))

\* builder.build()
CallBuild ==
  /\ phase = "builder"
  /\ ~op_in.built
  /\ problem' = ProblemBuild(op_in.builder)
  /\ op_in' = [op_in EXCEPT !.built = TRUE]
  /\ op_out' = [fn |-> "build",
                ret |-> [arg |-> "", before |-> op_in.builder.available_commands,
                         result |-> FALSE]]
  /\ UNCHANGED << program, checks, is_over, vres, phase, io, gs,
                  speed_min, speed_max, speed_avg, executed, cases, results >>

\* problem.is_command_available(command)
CallIsCommandAvailable ==
  /\ phase = "builder"
  /\ op_in.built
  /\ \E command \in OpKeys :
       op_out' = [fn |-> "is_command_available",
                  ret |-> [arg |-> command, before |-> op_in.builder.available_commands,
                           result |-> is_command_available(problem, command)]]
  /\ UNCHANGED << op_in, program, problem, checks, is_over, vres, phase, io, gs,
                  speed_min, speed_max, speed_avg, executed, cases, results >>

\* lhs.add(rhs)
CallValueAdd ==
  /\ phase = "value"
  /\ op_in.fn = "add"
  /\ Returned("add", ValueAdd(op_in.lhs, op_in.rhs, checks))

\* lhs.sub(rhs)
CallValueSub ==
  /\ phase = "value"
  /\ op_in.fn = "sub"
  /\ Returned("sub", ValueSub(op_in.lhs, op_in.rhs, checks))

NextOps ==
  \/ CallRequiresIndex
  \/ CallGetIndex
  \/ CallTryGetIndex
  \/ CallExecute
  \/ CallNext
  \/ CallArm
  \/ CallPass
  \/ CallTail
  \/ CallCompileCode
  \/ CallCompileInstruction
  \/ CallTryCompileCommandValue
  \/ CallTryCompileLabel
  \/ CallAddIo
  \/ CallMemoryDim
  \/ CallAddMemorySlot
  \/ CallEnableAllCommands
  \/ CallEnableCommand
  \/ CallDisableCommand
  \/ CallBuild
  \/ CallIsCommandAvailable
  \/ CallValueAdd
  \/ CallValueSub

SpecOps == InitOps /\ [][NextOps]_vars

\* ================================================================ claims
Finished == results # <<>>
LastResult == results[Len(results)]
MemoryPanic(r) == r.tag = "Panic" /\ r.err.kind = "memory index out of bounds"
ControlPanic(r) ==
  /\ r.tag = "Panic"
  /\ r.err.kind \in {"command index out of bounds", "unwrap on missing label"}

\* C1: once validate has succeeded for the program and the problem, no IO
\* case of the problem that the interpreter run_io executes the program on
\* ends in an out-of-bounds memory access.
C1_MemorySound ==
  vres = VOk => \A k \in 1..Len(results) : ~MemoryPanic(results[k])

\* A validated program with an indirect operand has run and written memory.
C1_Witness ==
  /\ vres = VOk
  /\ Finished
  /\ gs.memory # problem.memory
  /\ \E i \in 1..Len(program.commands) :
       program.commands[i].mode = "Index" /\ gs.i_command >= i

\* C2: once validate has succeeded, the interpreter run_io never reads past
\* the command list and never looks up a label that is missing from the
\* label table.
C2_ControlSound ==
  vres = VOk => \A k \in 1..Len(results) : ~ControlPanic(results[k])

\* C3: running the same Program against the same Problem twice in a row
\* gives the same result both times; nothing the first run leaves behind
\* (the end-of-input flag of an Inbox included) changes the second run.
C3_Deterministic ==
  Len(results) >= 2 => results[2] = results[1]

\* Two runs have returned a Score; in both, an IO case ended at an Inbox that
\* found the input exhausted and a later one ended at an Inbox before it.
C3_Witness ==
  /\ Len(results) = 2
  /\ results[2].tag = "Score"
  /\ problem.ios = IoThenNone
  /\ cases[1].halt = "inbox"
  /\ cases[2].halt = "inbox"
  /\ is_over[1]

\* C4: an IO case runs the same whichever cases ran before it; in particular
\* an Inbox that is executed while input remains continues to pc + 1, also
\* when an earlier IO case ended on that Inbox with its input exhausted.
C4_InboxContinues ==
  [][ ( /\ phase = "run_io"
        /\ phase' = "run_io"
        /\ gs.i_command + 1 \in 1..Len(commands_new)
        /\ commands_new[gs.i_command + 1].op = "INBOX"
        /\ gs.i_input < Len(gs.input)
        /\ gs'.speed = gs.speed + 1 )
      => gs'.i_command = gs.i_command + 1 ]_vars

\* The first IO case ended at the third instruction, an Inbox that found the
\* input exhausted; in the second IO case that Inbox has read a value and
\* the case went on to the Outbox after it.
C4_Witness ==
  /\ problem.ios = IoTwo
  /\ io = 1
  /\ cases[1].halt = "inbox"
  /\ cases[1].speed = 2
  /\ phase = "run_io"
  /\ gs.i_command = 3
  /\ gs.i_input = 2

\* C5: every IO case starts on a copy of the memory template of the Problem
\* with an empty accumulator and the input cursor, output cursor, program
\* counter and step counter at 0, and no step changes the Problem.
C5_FreshState ==
  [][ /\ problem' = problem
      /\ (phase = "for" /\ phase' = "run_io") =>
            /\ gs'.memory = problem.memory
            /\ gs'.acc = None
            /\ gs'.i_input = 0
            /\ gs'.i_output = 0
            /\ gs'.i_command = 0
            /\ gs'.speed = 0
            /\ \A i \in DOMAIN is_over' : ~is_over'[i] ]_vars

\* The second IO case starts after the first one moved both cursors, filled
\* the accumulator and ended at an Inbox.
C5_Witness ==
  /\ problem.ios = IoTwo
  /\ Len(problem.memory) = 2
  /\ io = 1
  /\ cases[1].tag = "Ok"
  /\ cases[1].executed = 2
  /\ phase = "run_io"
  /\ gs.speed = 0
  /\ gs.memory = problem.memory
  /\ is_over = [i \in 1..Len(commands_new) |-> FALSE]

\* C6: run returns the RunError of the first IO case that fails, in list
\* order, and executes no IO case after it; a Score is returned only if every
\* IO case of the Problem succeeded.
C6_FirstError ==
  (phase = "idle" /\ Finished) =>
    /\ \A k \in 1..Len(cases) : cases[k].index = k
    /\ \A k \in 1..(Len(cases) - 1) : cases[k].tag = "Ok"
    /\ LastResult.tag = "Err" =>
         /\ cases # <<>>
         /\ cases[Len(cases)].tag = "Err"
         /\ cases[Len(cases)].err = LastResult.err
    /\ LastResult.tag = "Score" =>
         /\ Len(cases) = Len(problem.ios)
         /\ \A k \in 1..Len(cases) : cases[k].tag = "Ok"

\* run returned the error of the second of three IO cases.
C6_Witness ==
  /\ phase = "idle"
  /\ Finished
  /\ LastResult.tag = "Err"
  /\ Len(problem.ios) = 3
  /\ Len(cases) = 2

\* C7: on a successful IO case the reported step count is the number of
\* instructions executed before the halt, each counted once, the halting
\* fetch (an Inbox that found the input exhausted, or the end) not counted.
\* Stated for the programs validate accepted whose labels are bound as
\* ProgramBuilder binds them, to an index of at most the End marker.
C7_StepCount ==
  ( /\ vres = VOk
    /\ \A l \in DOMAIN program.labels : program.labels[l] < Len(program.commands) ) =>
    \A k \in 1..Len(cases) :
      cases[k].tag = "Ok" => cases[k].speed = cases[k].executed

\* INBOX; OUTBOX; JUMP back ended at the Inbox with three instructions
\* executed, the jump among them.
C7_Witness ==
  /\ program = EchoLoop
  /\ vres = VOk
  /\ problem.ios = IoCopy
  /\ cases # <<>>
  /\ cases[1].tag = "Ok"
  /\ cases[1].halt = "inbox"
  /\ cases[1].speed = 3

\* The Problem of the scenario: one IO case, input [5], output [5], no memory.
CopyProblem == Problem(IoCopy, <<>>, ALL_COMMANDS)

\* C8 as stated: INBOX; OUTBOX against input [5], output [5], memory size 0
\* succeeds with size 2 and a step count of 1 (speed_min = speed_max = 1).
C8_Original ==
  (program = CopyProgram /\ problem = CopyProblem) =>
    \A k \in 1..Len(results) :
      results[k] = RunResult("Score", Score(2, U32(1), 1, 1, 1), NoErr)

\* C8 amended: INBOX; OUTBOX against input [5], output [5], memory size 0
\* succeeds with size 2 and a step count of 2 (speed_min = speed_max = 2).
C8_CopyAndOutput ==
  (program = CopyProgram /\ problem = CopyProblem) =>
    \A k \in 1..Len(results) :
      results[k] = RunResult("Score", Score(2, U32(2), 2, 2, 1), NoErr)

\* The scenario has run to its Score.
C8_Witness ==
  /\ program = CopyProgram
  /\ problem = CopyProblem
  /\ phase = "idle"
  /\ Finished
  /\ LastResult.tag = "Score"
  /\ gs.i_output = 1

RECURSIVE SumSpeeds(_, _)
SumSpeeds(cs, k) == IF k = 0 THEN 0 ELSE cs[k].speed + SumSpeeds(cs, k - 1)
CaseSpeeds == { cases[k].speed : k \in 1..Len(cases) }
Instructions == { i \in 1..Len(program.commands) : program.commands[i] # End }
\* The command list is closed by the End marker, as ProgramBuilder::build
\* closes it (Program::default() has no command at all).
ClosedByEnd == program.commands # <<>> /\ program.commands[Len(program.commands)] = End

Available(c) == c.op \in problem.available_commands
Passes(c) ==
  \/ c = End
  \/ /\ Available(c)
     /\ c.op \in MemOps => c.idx < Len(problem.memory)
     /\ c.op \in JumpOps => c.label \in DOMAIN program.labels

\* C10: validate fails with CommandNotAvailable(keyword) for the first
\* instruction whose keyword the Problem does not enable, when no earlier
\* instruction fails validation; the End marker is never reported.
C10_NotAvailable ==
  vres # VNone =>
    /\ \A i \in 1..Len(program.commands) :
         ( /\ program.commands[i] # End
           /\ ~Available(program.commands[i])
           /\ \A j \in 1..(i - 1) : Passes(program.commands[j]) )
         => vres = VErr("CommandNotAvailable", program.commands[i].op, 0)
    /\ vres.kind = "CommandNotAvailable" => vres.s # "END"

\* ADD 0 against a Problem that enables only INBOX and OUTBOX.
C10_Witness ==
  /\ vres = VErr("CommandNotAvailable", "ADD", 0)
  /\ problem.available_commands = {"INBOX", "OUTBOX"}
  /\ \E i \in 1..Len(program.commands) : program.commands[i] = Lit("ADD", 0)

\* The command at position i (1-based) is the first that validate rejects.
FirstOffender(i) ==
  /\ ~Passes(program.commands[i])
  /\ \A j \in 1..(i - 1) : Passes(program.commands[j])

\* C11: validate fails with CommandIndex(i) when the first offending
\* instruction is an enabled memory instruction whose operand index i, literal
\* or indirect, is >= the memory length; an index below the memory length is
\* never reported.
C11_CommandIndex ==
  vres # VNone =>
    /\ \A i \in 1..Len(program.commands) :
         ( /\ FirstOffender(i)
           /\ Available(program.commands[i])
           /\ program.commands[i].op \in MemOps
           /\ program.commands[i].idx >= Len(problem.memory) )
         => vres = VErr("CommandIndex", "", program.commands[i].idx)
    /\ vres.kind = "CommandIndex" => vres.n >= Len(problem.memory)

\* A single instruction with an indirect operand past the memory was rejected.
C11_Witness ==
  /\ vres.kind = "CommandIndex"
  /\ Len(program.commands) = 2
  /\ program.commands[1].mode = "Index"
  /\ program.commands[1].idx = 1
  /\ vres.n = 1

\* C12: validate fails with MissingLabel(name) when the first offending
\* instruction is an enabled JUMP, JUMPZ or JUMPN whose label is not in the
\* label table; a label that is in the table, wherever it points, is never
\* reported missing.
C12_MissingLabel ==
  vres # VNone =>
    /\ \A i \in 1..Len(program.commands) :
         ( /\ FirstOffender(i)
           /\ Available(program.commands[i])
           /\ program.commands[i].op \in JumpOps
           /\ program.commands[i].label \notin DOMAIN program.labels )
         => vres = VErr("MissingLabel", program.commands[i].label, 0)
    /\ vres.kind = "MissingLabel" => vres.s \notin DOMAIN program.labels

\* JUMPN b was rejected in a program that declares another label.
C12_Witness ==
  /\ vres = VErr("MissingLabel", "b", 0)
  /\ DOMAIN program.labels = {"a"}
  /\ \E i \in 1..Len(program.commands) : program.commands[i].op = "JUMPN"

\* C13: when every instruction passes, validate fails with LabelIndex(i) for
\* a label whose index i exceeds the instruction count (the End marker not
\* counted), and succeeds when no label does: a label may point at the End
\* marker but at nothing beyond it.
C13_LabelIndex ==
  (vres # VNone /\ \A i \in 1..Len(program.commands) : Passes(program.commands[i])) =>
    IF \E l \in DOMAIN program.labels : program.labels[l] > Cardinality(Instructions)
      THEN /\ vres.kind = "LabelIndex"
           /\ vres.n > Cardinality(Instructions)
           /\ \E l \in DOMAIN program.labels : program.labels[l] = vres.n
      ELSE vres = VOk

\* The error validate owes to a command that does not pass: availability
\* first, then the operand index, then the label.
ErrorOf(c) ==
  IF ~Available(c) THEN VErr("CommandNotAvailable", c.op, 0)
  ELSE IF c.op \in MemOps /\ c.idx >= Len(problem.memory)
    THEN VErr("CommandIndex", "", c.idx)
  ELSE VErr("MissingLabel", c.label, 0)

\* C14: validate returns the first violation only: the error of the earliest
\* offending instruction, for which availability is checked before its index
\* or label; a LabelIndex error is returned only when every instruction
\* passed.
C14_FirstViolation ==
  vres # VNone =>
    /\ \A i \in 1..Len(program.commands) :
         FirstOffender(i) => vres = ErrorOf(program.commands[i])
    /\ vres.kind = "LabelIndex" =>
         \A i \in 1..Len(program.commands) : Passes(program.commands[i])

\* A disallowed instruction in a program with a label index validate rejects,
\* and a later instruction that offends too.
C14_Witness ==
  /\ vres.kind = "CommandNotAvailable"
  /\ \E l \in DOMAIN program.labels : program.labels[l] > Len(program.commands)
  /\ ~Passes(program.commands[1])
  /\ Len(program.commands) = 3
  /\ ~Passes(program.commands[2])

\* C15: interpreting a program that validate did not accept and whose
\* executed jump names a label missing from the label table ends in an error
\* value that is returned, never in a panic.
C15_MissingLabelIsError ==
  vres # VOk =>
    \A k \in 1..Len(results) :
      ~(results[k].tag = "Panic" /\ results[k].err.kind = "unwrap on missing label")

\* C16: requires_index returns Some(i) for a memory instruction whose operand
\* is the literal index i, None for one whose operand is indirect, and None
\* for INBOX, OUTBOX and the jumps.
C16_RequiresIndex ==
  op_out.fn = "requires_index" =>
    op_out.ret = IF op_in.command.op \in MemOps /\ op_in.command.mode = "Value"
                   THEN SomeIndex(op_in.command.idx)
                   ELSE NoIndex

\* The cell an indirect operand of the call points at.
OperandCell == op_in.memory[op_in.command.idx + 1]

\* C19: a literal operand i resolves to i; an indirect operand [i], with
\* cell i in the memory, resolves to n when the cell holds Int(n) with
\* 0 <= n < memory length, fails with IndexOutOfRange(Int(n)) for any other
\* n, with CharIndex(c) when the cell holds the Char c and with EmptyMemory
\* when the cell is empty; the memory of the call is left as it was.
C19_OperandResolution ==
  ( /\ op_out.fn \in {"get_index", "try_get_index"}
    /\ op_in.command.mode = "Index" => op_in.command.idx < Len(op_in.memory) ) =>
    IF op_in.command.mode = "Value"
      THEN op_out.ret = ROk(op_in.command.idx)
    ELSE IF OperandCell = None
      THEN /\ op_out.ret.tag = "Err"
           /\ op_out.ret.err.kind \in {"EmptyMemory", "EmptyMemoryNew"}
    ELSE IF OperandCell.t = "Char"
      THEN /\ op_out.ret.tag = "Err"
           /\ op_out.ret.err.kind = "CharIndex"
           /\ op_out.ret.err.value = OperandCell
    ELSE IF OperandCell.v < 0 \/ OperandCell.v >= Len(op_in.memory)
      THEN /\ op_out.ret.tag = "Err"
           /\ op_out.ret.err.kind = "IndexOutOfRange"
           /\ op_out.ret.err.value = OperandCell
    ELSE op_out.ret = ROk(OperandCell.v)

\* ADD [1] was resolved through a cell that holds an index of the memory.
C19_Witness ==
  /\ op_out.fn = "get_index"
  /\ op_in.command = Ind("ADD", 1)
  /\ op_in.memory = << A, VInt(0) >>
  /\ op_out.ret = ROk(0)

\* The step in which execute of the instruction `op` is called and returns,
\* and the step in which next is.
ExecuteStep(op) ==
  phase = "call" /\ op_in.command.op = op /\ op_out = NotCalled /\ op_out'.fn = "execute"
NextStep(op) ==
  phase = "call" /\ op_in.command.op = op /\ op_out.fn = "execute" /\ op_out'.fn = "next"

\* C17: Outbox fails with EmptyAcc on an empty accumulator; with the
\* accumulator v and the output cursor at the end of the expected output it
\* fails with IncorrectOutput{expected: None, value: v}; with v different from
\* the expected value e at the cursor it fails with
\* IncorrectOutput{expected: e, value: v}; with v equal to e it advances the
\* output cursor by one and changes nothing else of the game state.
C17_Outbox ==
  [][ ExecuteStep("OUTBOX") =>
        IF gs.acc = None
          THEN /\ op_out'.ret.tag = "Err"
               /\ op_out'.ret.err.kind = "EmptyAcc"
        ELSE IF gs.i_output = Len(gs.output)
          THEN /\ op_out'.ret.tag = "Err"
               /\ op_out'.ret.err.kind = "IncorrectOutput"
               /\ op_out'.ret.err.expected = None
               /\ op_out'.ret.err.value = gs.acc
        ELSE IF gs.acc # gs.output[gs.i_output + 1]
          THEN /\ op_out'.ret.tag = "Err"
               /\ op_out'.ret.err.kind = "IncorrectOutput"
               /\ op_out'.ret.err.expected = gs.output[gs.i_output + 1]
               /\ op_out'.ret.err.value = gs.acc
        ELSE /\ op_out'.ret.tag = "Ok"
             /\ gs' = [gs EXCEPT !.i_output = gs.i_output + 1] ]_vars

\* Outbox matched the second expected value and moved the cursor past it.
C17_Witness ==
  /\ phase = "call"
  /\ op_in.command = Outbox
  /\ op_out.fn = "execute"
  /\ op_out.ret.tag = "Ok"
  /\ gs.output = << VInt(0), A >>
  /\ gs.acc = A
  /\ gs.i_output = 2

\* Where a jump continues: at the index of its label, or at the next command.
LabelIndex == ROk(program.labels[op_in.command.label])
FallThrough == ROk(gs.i_command + 1)

\* C20: JUMP continues at the index of its label; JUMPZ does exactly when
\* the accumulator is Int(0) and JUMPN exactly when it is a negative Int, and
\* for every other Int and every Char they continue at pc + 1; JUMPZ and
\* JUMPN fail with EmptyAcc on an empty accumulator; none of the three changes
\* the accumulator, the memory or the cursors.  (The label is one the
\* program defines.)
C20_Jumps ==
  [][ /\ ExecuteStep("JUMP") => op_out'.ret.tag = "Ok" /\ gs' = gs
      /\ ExecuteStep("JUMPZ") \/ ExecuteStep("JUMPN") =>
           /\ gs' = gs
           /\ IF gs.acc = None
                THEN op_out'.ret.tag = "Err" /\ op_out'.ret.err.kind = "EmptyAcc"
                ELSE op_out'.ret.tag = "Ok"
      /\ NextStep("JUMP") => gs' = gs /\ op_out'.ret = LabelIndex
      /\ NextStep("JUMPZ") =>
           /\ gs' = gs
           /\ op_out'.ret = IF gs.acc = VInt(0) THEN LabelIndex ELSE FallThrough
      /\ NextStep("JUMPN") =>
           /\ gs' = gs
           /\ op_out'.ret = IF gs.acc.t = "Int" /\ gs.acc.v < 0
                              THEN LabelIndex ELSE FallThrough ]_vars

\* JUMPN at index 1 with Int(-1) in the accumulator continued at its label.
C20_Witness ==
  /\ phase = "call"
  /\ op_in.command = Jmp("JUMPN", "a")
  /\ op_out.fn = "next"
  /\ gs.acc = VInt(-1)
  /\ gs.i_command = 1
  /\ op_out.ret = ROk(0)

\* The loop of run_io is about to fetch an Inbox.
AtInbox ==
  /\ phase = "run_io"
  /\ gs.i_command < Len(program.commands)
  /\ program.commands[gs.i_command + 1].op = "INBOX"

\* The outcome of the IO case that has just returned.
LastCase == cases[Len(cases)]

\* C18: with the input cursor before the end of the input, Inbox puts the
\* value at the cursor into the accumulator and advances the input cursor by
\* one, memory and output cursor as they were, and the IO case goes on; with
\* the input exhausted it leaves accumulator, cursors and memory as they
\* were and the IO case ends at once, with no instruction executed after it
\* and no error other than the one for expected output still missing.
C18_Inbox ==
  [][ AtInbox =>
        IF gs.i_input < Len(gs.input)
          THEN /\ gs'.acc = gs.input[gs.i_input + 1]
               /\ gs'.i_input = gs.i_input + 1
               /\ gs'.memory = gs.memory
               /\ gs'.i_output = gs.i_output
               /\ phase' = "run_io"
               /\ cases' = cases
          ELSE /\ gs'.acc = gs.acc
               /\ gs'.i_input = gs.i_input
               /\ gs'.i_output = gs.i_output
               /\ gs'.memory = gs.memory
               /\ gs'.i_command = gs.i_command
               /\ phase' # "run_io"
               /\ executed' = executed
               /\ Len(cases') = Len(cases) + 1
               /\ IF gs.i_output = Len(gs.output)
                    THEN LastCase'.tag = "Ok"
                    ELSE /\ LastCase'.tag = "Err"
                         /\ LastCase'.err.kind = "IncorrectOutput"
                         /\ LastCase'.err.value = None ]_vars

\* An IO case ended at an Inbox after its two inputs were read and both
\* expected outputs produced.
C18_Witness ==
  /\ cases # <<>>
  /\ LastCase.tag = "Ok"
  /\ LastCase.halt = "inbox"
  /\ gs.i_input = 2
  /\ gs.i_input = Len(gs.input)
  /\ gs.i_output = 2
  /\ gs.acc # None

\* The step in which the arm of the instruction `op` runs, the index its
\* operand resolves to, and the cell at that index (when there is one).
ArmStep(op) ==
  phase = "arm" /\ op_in.command.op = op /\ op_out = NotCalled /\ op_out'.fn = "arm"
Resolved == get_index(op_in.command, gs.memory, op_in.command)
HasCell == Resolved.tag = "Ok" /\ Resolved.val < Len(gs.memory)
ResolvedCell == gs.memory[Resolved.val + 1]

\* The arm failed with the RunError `kind`.
ArmFailed(kind) ==
  op_out'.ret.tag = "Err" /\ op_out'.ret.err.kind = kind

\* What a bump does to a cell that holds Int(n), the result Int(m) being an i32.
Bumped(m) ==
  /\ op_out'.ret.tag = "Next"
  /\ gs' = [gs EXCEPT !.memory[Resolved.val + 1] = VInt(m), !.acc = VInt(m)]

\* C21: BUMPUP (BUMPDN) on a resolved cell that holds Int(n) makes the cell
\* and the accumulator Int(n+1) (Int(n-1)), whatever the accumulator held
\* and with every other cell as it was; on a cell that holds a Char it fails
\* with the Add (Sub) error, on an empty cell with EmptyMemory.  (n+1 and n-1
\* within i32; the overflow is the matter of C26.)
C21_Bump ==
  [][ /\ (ArmStep("BUMPUP") /\ HasCell) =>
           IF ResolvedCell = None THEN ArmFailed("EmptyMemory")
           ELSE IF ResolvedCell.t = "Char" THEN ArmFailed("Add")
           ELSE ResolvedCell.v < I32Max => Bumped(ResolvedCell.v + 1)
      /\ (ArmStep("BUMPDN") /\ HasCell) =>
           IF ResolvedCell = None THEN ArmFailed("EmptyMemory")
           ELSE IF ResolvedCell.t = "Char" THEN ArmFailed("Sub")
           ELSE ResolvedCell.v > I32Min => Bumped(ResolvedCell.v - 1) ]_vars

\* BUMPDN [1] went through cell 1 to cell 0 and took it from 1 to 0.
C21_Witness ==
  /\ phase = "arm"
  /\ op_out.fn = "arm"
  /\ op_out.ret.tag = "Next"
  /\ op_in.command = Ind("BUMPDN", 1)
  /\ op_in.memory = << VInt(1), VInt(0) >>
  /\ gs.memory = << VInt(0), VInt(0) >>
  /\ gs.acc = VInt(0)

\* What ADD and SUB do with the Option that Value::add / Value::sub returned.
Computed(result, kind) ==
  IF result = PanicValue THEN TRUE
  ELSE IF result = None THEN ArmFailed(kind)
  ELSE op_out'.ret.tag = "Next" /\ gs' = [gs EXCEPT !.acc = result]

\* C22: ADD (SUB) with a in the accumulator and m in the resolved cell sets
\* the accumulator to Value::add(a, m) (Value::sub(a, m)) and leaves the
\* memory as it was; it fails with EmptyAcc on an empty accumulator, with
\* EmptyMemory on an empty cell, with the Add (Sub) error when Value::add
\* (Value::sub) is not defined for (a, m).
C22_AddSub ==
  [][ /\ ArmStep("ADD") =>
           IF gs.acc = None THEN ArmFailed("EmptyAcc")
           ELSE HasCell =>
                  IF ResolvedCell = None THEN ArmFailed("EmptyMemory")
                  ELSE Computed(ValueAdd(gs.acc, ResolvedCell, checks), "Add")
      /\ ArmStep("SUB") =>
           IF gs.acc = None THEN ArmFailed("EmptyAcc")
           ELSE HasCell =>
                  IF ResolvedCell = None THEN ArmFailed("EmptyMemory")
                  ELSE Computed(ValueSub(gs.acc, ResolvedCell, checks), "Sub") ]_vars

\* SUB 1 with Int(-1) in the accumulator and Int(1) in cell 1 left Int(-2).
C22_Witness ==
  /\ phase = "arm"
  /\ op_out.fn = "arm"
  /\ op_out.ret.tag = "Next"
  /\ op_in.command = Lit("SUB", 1)
  /\ op_in.memory = << A, VInt(1) >>
  /\ gs.memory = op_in.memory
  /\ gs.acc = VInt(-2)

\* C23: COPYFROM sets the accumulator to the value of the resolved cell, an
\* Int or a Char, whether or not the accumulator held a value, and leaves
\* the memory as it was; on an empty cell it fails with EmptyMemory.
C23_CopyFrom ==
  [][ (ArmStep("COPYFROM") /\ HasCell) =>
        IF ResolvedCell = None THEN ArmFailed("EmptyMemory")
        ELSE /\ op_out'.ret.tag = "Next"
             /\ gs' = [gs EXCEPT !.acc = ResolvedCell] ]_vars

\* COPYFROM [1] went through cell 1 to cell 0 and read the Char there.
C23_Witness ==
  /\ phase = "arm"
  /\ op_out.fn = "arm"
  /\ op_out.ret.tag = "Next"
  /\ op_in.command = Ind("COPYFROM", 1)
  /\ op_in.memory = << A, VInt(0) >>
  /\ gs.memory = op_in.memory
  /\ gs.acc = A

\* C24: COPYTO writes the value of the accumulator into the resolved cell,
\* empty or not, and leaves the accumulator and every other cell as they
\* were; with an empty accumulator it fails with EmptyAcc and writes nothing.
C24_CopyTo ==
  [][ ArmStep("COPYTO") =>
        IF gs.acc = None THEN ArmFailed("EmptyAcc") /\ gs' = gs
        ELSE HasCell =>
               /\ op_out'.ret.tag = "Next"
               /\ gs' = [gs EXCEPT !.memory[Resolved.val + 1] = gs.acc] ]_vars

\* COPYTO 1 wrote the Char of the accumulator into the empty cell 1.
C24_Witness ==
  /\ phase = "arm"
  /\ op_out.fn = "arm"
  /\ op_out.ret.tag = "Next"
  /\ op_in.command = Lit("COPYTO", 1)
  /\ op_in.memory = << VInt(0), None >>
  /\ gs.memory = << VInt(0), A >>
  /\ gs.acc = A

\* The mathematical sum a + b, and the difference a - b, is an i32.
SumFits(a, b) == ~(b > 0 /\ a > I32Max - b) /\ ~(b < 0 /\ a < I32Min - b)
DiffFits(a, b) == ~(b < 0 /\ a > I32Max + b) /\ ~(b > 0 /\ a < I32Min + b)

\* C25: Value::add returns the Int sum for Int + Int and None for Char + Char
\* and for a mixed pair in either order; Value::sub returns the Int
\* difference for Int - Int, the Int difference of the code points for
\* Char - Char, and None for a mixed pair in either order.  (Sums and
\* differences within i32; the overflow is the matter of C26.)
C25_ValueArithmetic ==
  /\ op_out.fn = "add" =>
       IF op_in.lhs.t = "Int" /\ op_in.rhs.t = "Int"
         THEN SumFits(op_in.lhs.v, op_in.rhs.v) =>
                op_out.ret = VInt(op_in.lhs.v + op_in.rhs.v)
         ELSE op_out.ret = None
  /\ op_out.fn = "sub" =>
       IF op_in.lhs.t = "Int" /\ op_in.rhs.t = "Int"
         THEN DiffFits(op_in.lhs.v, op_in.rhs.v) =>
                op_out.ret = VInt(op_in.lhs.v - op_in.rhs.v)
       ELSE IF op_in.lhs.t = "Char" /\ op_in.rhs.t = "Char"
         THEN op_out.ret = VInt(op_in.lhs.v - op_in.rhs.v)
       ELSE op_out.ret = None

\* 'B' - 'A' returned Int(1).
C25_Witness ==
  /\ op_out.fn = "sub"
  /\ op_in.lhs = B
  /\ op_in.rhs = A
  /\ op_out.ret = VInt(1)

\* C26: Value::add and Value::sub never panic on two Ints, whatever their
\* sum or difference, and neither do ADD, SUB, BUMPUP and BUMPDN: each
\* returns a value or an error.
C26_NoArithmeticPanic ==
  /\ op_out.fn \in { "add", "sub" } => op_out.ret # PanicValue
  /\ op_out.fn = "arm" =>
       ~(op_out.ret.tag = "Panic" /\ op_out.ret.err = RPanic("arithmetic overflow").err)

\* C27: there is no step limit: in a program that validate accepts and that
\* jumps in a circle, every pass through the loop of run_io, after however
\* many passes, goes on to the next one; run returns no Score and no error,
\* and nothing else ends the run either.
C27_NoStepLimit ==
  ( /\ op_out.fn = "pass"
    /\ op_in.command.op \in JumpOps
    /\ validate(program, problem) = { VOk } ) =>
    op_out.ret.tag = "Goto"

\* What the lines of the source text of the call are, one by one.
LineKind(i) == compile_instruction(op_in.code[i]).kind
LinesOf(kind) == { i \in 1..Len(op_in.code) : LineKind(i) = kind }
LabelAt(i) == compile_instruction(op_in.code[i]).label
InstructionsBefore(i) == Cardinality({ j \in LinesOf("Command") : j < i })
DeclaredOnce(i) == \A j \in LinesOf("Label") : LabelAt(j) = LabelAt(i) => j = i

\* The Program that compile_code returned.
CompiledProgram == op_out.ret.program

\* C28: compile_code binds each label to the number of instructions emitted
\* before its declaration, which is the index of the next instruction
\* emitted after it whatever blank lines, comments and other labels lie
\* between; a label declared after the last instruction is bound to the End
\* marker, where the loop of run_io halts.  (Source texts without a DEFINE
\* line, each label declared once: those are the matter of C30 and C39.)
C28_LabelBinding ==
  ( /\ op_out.fn = "compile_code"
    /\ op_out.ret.tag = "Ok"
    /\ LinesOf("Define") = {} ) =>
    \A i \in LinesOf("Label") :
      DeclaredOnce(i) =>
        /\ LabelAt(i) \in DOMAIN CompiledProgram.labels
        /\ CompiledProgram.labels[LabelAt(i)] = InstructionsBefore(i)
        /\ InstructionsBefore(i) < Len(CompiledProgram.commands)
        /\ (\A j \in LinesOf("Command") : j < i) =>
             /\ CompiledProgram.commands[InstructionsBefore(i) + 1] = End
             /\ MatchCommand(CompiledProgram, End, IdleGameState, FALSE).tag = "Break"

\* "INBOX", "a:", "-- x --": the label after the last instruction is bound
\* to index 1, the End marker.
C28_Witness ==
  /\ op_out.fn = "compile_code"
  /\ op_in.code = << LineInbox, LineLabelA, LineDashes >>
  /\ op_out.ret.tag = "Ok"
  /\ CompiledProgram.labels = Labels1("a", 1)
  /\ CompiledProgram.commands = << Inbox, End >>

\* The first line of the source text that has none of the recognised shapes.
IllegalLines == LinesOf("Illegal")
FirstIllegal == CHOOSE i \in IllegalLines : \A j \in IllegalLines : i <= j

\* C29: when a line of the source text, at whatever position, has none of
\* the recognised shapes, compile_code returns IllegalLine with that line
\* trimmed, and no Program.  (The numbers of the pragma lines within u32.)
C29_AllOrNothing ==
  (op_out.fn = "compile_code" /\ IllegalLines # {} /\ LinesOf("Panic") = {}) =>
    /\ op_out.ret.tag = "Err"
    /\ op_out.ret.line = to_string(trim(op_in.code[FirstIllegal]))
    /\ CompiledProgram = NoProgram

\* The instructions of the source text, in the order of their lines.
RECURSIVE Emitted(_)
Emit(parsed) == IF parsed.kind = "Command" THEN << parsed.command >> ELSE << >>
Emitted(code) ==
  IF code = << >> THEN << >>
  ELSE Emit(compile_instruction(code[1])) \o Emitted(Tail(code))

\* C30: a blank line, a line between "--" and "--", a COMMENT n line and a
\* DEFINE COMMENT|LABEL n line emit no instruction and bind no label, and the
\* lines after them are compiled: the Program has every instruction of the
\* source text, in order, and every label declared in it.  (The numbers of
\* the pragma lines within u32.)
C30_IgnoredLines ==
  (op_out.fn = "compile_code" /\ IllegalLines = {} /\ LinesOf("Panic") = {}) =>
    /\ op_out.ret.tag = "Ok"
    /\ CompiledProgram.commands = Emitted(op_in.code) \o << End >>
    /\ DOMAIN CompiledProgram.labels = { LabelAt(i) : i \in LinesOf("Label") }

\* The line handed to compile_instruction, trimmed, and the position after
\* its leading run of upper-case letters.
LineIn == trim(op_in.keyword \o op_in.gap \o op_in.arg)
KeywordEnd == RunEnd(LineIn, 1, Upper)
\* A keyword immediately followed by something that is not white space.
Glued == KeywordEnd > 1 /\ KeywordEnd <= Len(LineIn) /\ LineIn[KeywordEnd] \notin Space

\* C31: a line whose upper-case keyword is immediately followed by its
\* argument, with no white space between them (JUMPa), is not an instruction
\* line: compile_instruction answers IllegalLine.
C31_KeywordSeparated ==
  (op_out.fn = "compile_instruction" /\ Glued /\ op_out.ret.kind # "Panic") =>
    op_out.ret.kind = "Illegal"

\* The shapes of an argument string: a bare unsigned integer, [unsigned
\* integer], and the number written (as an integer up to 2^31 - 1, as its
\* digits without leading zeros above that).
BareNumber(arg) == Matches(arg, AsciiDigit)
Inner(arg) == SubSeq(arg, 2, Len(arg) - 1)
Bracketed(arg) ==
  Len(arg) >= 3 /\ arg[1] = "[" /\ arg[Len(arg)] = "]" /\ Matches(Inner(arg), AsciiDigit)
IsOperand(ret, mode, digits) ==
  /\ ret.tag = "Some"
  /\ ret.mode = mode
  /\ IF Exceeds(StripZeros(digits), IntDigits)
       THEN ret.wide = StripZeros(digits)
     ELSE ret.wide = << >> /\ ret.idx = Decimal(digits)

\* C32: try_compile_command_value answers the literal index n exactly for a
\* bare unsigned integer n, the indirect index n exactly for [n], and None
\* for every other argument; try_compile_label answers the label exactly for
\* one or more lower-case letters; an INBOX or OUTBOX line is an instruction
\* exactly when nothing but white space follows the keyword.
C32_ArgumentGrammar ==
  /\ op_out.fn = "try_compile_command_value" =>
       /\ BareNumber(op_in.arg) => IsOperand(op_out.ret, "Value", op_in.arg)
       /\ Bracketed(op_in.arg) => IsOperand(op_out.ret, "Index", Inner(op_in.arg))
       /\ ~BareNumber(op_in.arg) /\ ~Bracketed(op_in.arg) => op_out.ret.tag = "None"
  /\ op_out.fn = "try_compile_label" =>
       IF Matches(op_in.arg, Lower)
         THEN op_out.ret = [tag |-> "Some", label |-> to_string(op_in.arg)]
       ELSE op_out.ret.tag = "None"
  /\ (op_out.fn = "compile_instruction" /\ op_in.keyword \in { KwInbox, KwOutbox }) =>
       IF trim(op_in.gap \o op_in.arg) = << >>
         THEN op_out.ret = Parsed("Command", Cmd(to_string(op_in.keyword), "-", 0, ""), "")
       ELSE op_out.ret.kind = "Illegal"

\* The instruction keywords of the game, and the availability set of the
\* builder.
KnownKeywords ==
  { "INBOX", "OUTBOX", "COPYFROM", "COPYTO", "ADD", "SUB", "BUMPUP", "BUMPDN",
    "JUMP", "JUMPZ", "JUMPN" }
BuilderSet == op_in.builder.available_commands

\* C33: after whatever calls of the builder, enable_all_commands has made
\* exactly the 11 known keywords available, enable_command(k) has added k
\* when k is a known keyword and changed nothing otherwise, disable_command(k)
\* has removed k and nothing else, and is_command_available(k) of the Problem
\* built holds exactly for the keywords of the builder's set.
C33_Availability ==
  /\ op_out.fn = "enable_all_commands" =>
       BuilderSet = KnownKeywords /\ Cardinality(BuilderSet) = 11
  /\ op_out.fn = "enable_command" =>
       BuilderSet = IF op_out.ret.arg \in KnownKeywords
                     THEN op_out.ret.before \cup { op_out.ret.arg }
                   ELSE op_out.ret.before
  /\ op_out.fn = "disable_command" => BuilderSet = op_out.ret.before \ { op_out.ret.arg }
  /\ op_out.fn \in { "add_io", "memory_dim", "add_memory_slot", "build" } =>
       BuilderSet = op_out.ret.before
  /\ op_out.fn = "is_command_available" =>
       (op_out.ret.result <=> op_out.ret.arg \in BuilderSet)

\* enable_command("NOP"), enable_command("JUMPN"), build: JUMPN is available
\* and is the only one.
C33_Witness ==
  /\ op_out.fn = "is_command_available"
  /\ op_out.ret.arg = "JUMPN"
  /\ op_out.ret.result
  /\ BuilderSet = { "JUMPN" }
  /\ op_in.calls = 2

\* The loop of run_io is about to fetch the instruction it halts at: the End
\* marker, or an Inbox with the input exhausted.
AtHalt ==
  /\ phase = "run_io"
  /\ gs.i_command < Len(program.commands)
  /\ \/ program.commands[gs.i_command + 1] = End
     \/ program.commands[gs.i_command + 1].op = "INBOX" /\ gs.i_input = Len(gs.input)

\* C34: an IO case that halts with the output cursor at the length of the
\* expected output succeeds; one that halts with the output cursor k before
\* it fails with IncorrectOutput { expected: the expected value at position
\* k, value: None }; and no IO case succeeds with expected output missing.
C34_OutputComplete ==
  [][ /\ AtHalt =>
           /\ Len(cases') = Len(cases) + 1
           /\ gs'.i_output = gs.i_output
           /\ IF gs.i_output = Len(gs.output)
                THEN LastCase'.tag = "Ok"
                ELSE /\ LastCase'.tag = "Err"
                     /\ LastCase'.err =
                          RunErr("IncorrectOutput", NoCmd, gs.output[gs.i_output + 1], None)
                     /\ LastResult' = RErr(LastCase'.err)
      /\ (phase = "run_io" /\ Len(cases') = Len(cases) + 1 /\ LastCase'.tag = "Ok") =>
           gs'.i_output = Len(gs'.output) ]_vars

\* An IO case halted at the End marker after one of its two expected
\* outputs: IncorrectOutput with the second expected value.
C34_Witness ==
  /\ cases # << >>
  /\ phase = "idle"
  /\ gs.i_command < Len(program.commands)
  /\ program.commands[gs.i_command + 1] = End
  /\ gs.i_output = 1
  /\ Len(gs.output) = 2
  /\ LastCase.tag = "Err"
  /\ LastCase.err = RunErr("IncorrectOutput", NoCmd, gs.output[2], None)

\* The pass through the loop of run_io that ends the IO case with a RunError.
FailingStep ==
  /\ phase = "run_io"
  /\ Len(cases') = Len(cases) + 1
  /\ LastCase'.tag = "Err"

\* C35: when the instruction fetched returns a RunError, the accumulator,
\* every memory cell, the input cursor and the output cursor are what they
\* were before it started.
C35_FailureAtomic ==
  [][ FailingStep =>
        /\ gs'.acc = gs.acc
        /\ gs'.memory = gs.memory
        /\ gs'.i_input = gs.i_input
        /\ gs'.i_output = gs.i_output
        /\ gs'.i_command = gs.i_command ]_vars

\* The instruction the IO case ended at, after it ended.
FailedAt == program.commands[gs.i_command + 1]

\* BUMPUP of a cell that holds a Char failed, after an instruction before it
\* had set the accumulator: the cell still holds the Char.
C35_Witness ==
  /\ cases # << >>
  /\ LastCase.tag = "Err"
  /\ gs.i_command < Len(program.commands)
  /\ FailedAt.op = "BUMPUP"
  /\ FailedAt.mode = "Value"
  /\ gs.memory[FailedAt.idx + 1].t = "Char"
  /\ gs.acc # None

\* C36: while an IO case runs, the input cursor is at most the length of the
\* input and the output cursor at most the length of the expected output,
\* the memory has the length of the Problem's memory, and every pass through
\* the loop (every fetch) leaves the cursors where they were or further,
\* keeps the length of the memory and adds exactly one to the step counter.
C36_CursorInvariants ==
  [][ /\ phase' = "run_io" =>
           /\ gs'.i_input <= Len(gs'.input)
           /\ gs'.i_output <= Len(gs'.output)
           /\ Len(gs'.memory) = Len(problem.memory)
      /\ phase = "run_io" =>
           /\ gs'.i_input >= gs.i_input
           /\ gs'.i_output >= gs.i_output
           /\ gs'.i_input <= Len(gs.input)
           /\ gs'.i_output <= Len(gs.output)
           /\ gs'.input = gs.input
           /\ gs'.output = gs.output
           /\ Len(gs'.memory) = Len(problem.memory)
           /\ gs'.speed = gs.speed + 1 ]_vars

\* An IO case still running after five fetches, both cursors at the end of
\* two values, on a memory of two cells.
C36_Witness ==
  /\ phase = "run_io"
  /\ gs.speed = 5
  /\ Len(gs.memory) = 2
  /\ gs.i_input = 2
  /\ Len(gs.input) = 2
  /\ gs.i_output = 2
  /\ Len(gs.output) = 2

\* The program has no JUMP, JUMPZ or JUMPN; its number N of instructions
\* (the End marker that build appends is not one).
JumpFree ==
  \A i \in 1..Len(program.commands) :
    program.commands[i].op \notin { "JUMP", "JUMPZ", "JUMPN" }
InstructionCount ==
  Cardinality({ i \in 1..Len(program.commands) : program.commands[i] # End })

\* A pass through the loop of run_io on a program without jumps: it is the
\* fetch number gs.speed + 1 <= N + 1 and fetches the command at the index
\* gs.speed; it moves the program counter forward by exactly one, or it is
\* the last of the IO case.
FetchWithinBound ==
  /\ gs.i_command = gs.speed
  /\ gs.speed <= InstructionCount
  /\ \/ /\ phase' = "run_io"
        /\ gs'.i_command = gs.i_command + 1
        /\ gs'.speed = gs.speed + 1
        /\ gs'.speed <= InstructionCount
        /\ cases' = cases
     \/ /\ phase' # "run_io"
        /\ Len(cases') = Len(cases) + 1
\* The pass that is the last of the IO case ends it with a step count or
\* with a RunError.
EndsWithCountOrError ==
  phase' # "run_io" => LastCase'.tag \in { "Ok", "Err" }

\* The fetch bound by itself: every IO case of a program without jumps has
\* ended after N + 1 fetches at the latest, however it ends.
JumpFreeFetchBound ==
  [][ (JumpFree /\ phase = "run_io") => FetchWithinBound ]_vars

\* C37: a program without JUMP, JUMPZ and JUMPN halts on every IO case, with
\* a step count or a RunError, after at most N + 1 fetches, N its number of
\* instructions: every pass through the loop of run_io moves the program
\* counter forward by exactly one or ends the IO case, and ends it with
\* Ok(step count) or Err(RunError).
C37_JumpFreeHalts ==
  [][ (JumpFree /\ phase = "run_io") =>
        FetchWithinBound /\ EndsWithCountOrError ]_vars

\* The step counts of the IO cases that the run which has just returned
\* executed.
ExecutedSpeeds == { cases[k].speed : k \in { j \in 1..Len(cases) : cases[j].tag = "Ok" } }

\* C38: the Score that run returns has speed_min <= speed_max, and both are
\* step counts of IO cases that the run executed, whatever Problem the
\* builder has built (one without IO case among them).
C38_ScoreOrdered ==
  (phase = "idle" /\ Finished /\ LastResult.tag = "Score") =>
    /\ ~LastResult.score.speed_min.max
    /\ LastResult.score.speed_min.v <= LastResult.score.speed_max
    /\ LastResult.score.speed_min.v \in ExecutedSpeeds
    /\ LastResult.score.speed_max \in ExecutedSpeeds

\* The last line that declares the label of line i, and the jumps of the
\* source text to that label.
LastDeclaration(i) ==
  CHOOSE j \in LinesOf("Label") :
    /\ LabelAt(j) = LabelAt(i)
    /\ \A k \in LinesOf("Label") : LabelAt(k) = LabelAt(i) => k <= j
JumpsTo(label) ==
  { j \in LinesOf("Command") :
      /\ compile_instruction(op_in.code[j]).command.op \in JumpOps
      /\ compile_instruction(op_in.code[j]).command.label = label }

\* C39: a source text that declares a label more than once compiles as if
\* each declaration were the only one, and the label table holds for the
\* label the number of instructions before its last declaration: get_label
\* answers, for every jump to that label, before or after the
\* redeclaration, the index of the instruction that follows the last
\* declaration.  (Source texts without a DEFINE line: that is C30.)
C39_LastDeclaration ==
  ( /\ op_out.fn = "compile_code"
    /\ LinesOf("Define") = {}
    /\ LinesOf("Panic") = {}
    /\ IllegalLines = {} ) =>
    /\ op_out.ret.tag = "Ok"
    /\ \A i \in LinesOf("Label") :
         /\ LabelAt(i) \in DOMAIN CompiledProgram.labels
         /\ CompiledProgram.labels[LabelAt(i)] = InstructionsBefore(LastDeclaration(i))
         /\ \A j \in JumpsTo(LabelAt(i)) :
              /\ CompiledProgram.commands[InstructionsBefore(j) + 1] =
                   Jmp(compile_instruction(op_in.code[j]).command.op, LabelAt(i))
              /\ get_label(CompiledProgram, LabelAt(i)) =
                   ROk(InstructionsBefore(LastDeclaration(i)))

\* "a:", "JUMP a", "a:": the jump between the two declarations goes to index
\* 1, after the second one.
C39_Witness ==
  /\ op_out.fn = "compile_code"
  /\ op_in.code = << LineLabelA, LineJumpA, LineLabelA >>
  /\ op_out.ret.tag = "Ok"
  /\ CompiledProgram.commands = << Jmp("JUMP", "a"), End >>
  /\ CompiledProgram.labels = Labels1("a", 1)
  /\ get_label(CompiledProgram, "a") = ROk(1)

====
